---- MODULE Spec2Model ----
(***************************************************************************)
(* State-machine model of the ESP32 relay-control firmware                 *)
(* (src/esp32/esp32debugtest.cpp with src/esp32/config.h).                 *)
(*                                                                         *)
(* The firmware is one cooperative control loop.  Every function of the    *)
(* source is an operator from a machine state (a record holding every      *)
(* global of the program, the pins, the NVS store and the history logs)    *)
(* to the machine state after the call; every action of the model is one   *)
(* position of loop() and installs the result of the whole call made       *)
(* there.  ws.loop() delivers at most one WebSocket event per iteration.   *)
(* millis() is the variable now; it advances in setup() and in delay().    *)
(***************************************************************************)
EXTENDS Integers, Sequences, FiniteSets, TLC

VARIABLES
  switchesLocal,        \* std::vector<SwitchState>
  lastSeqs,             \* std::vector<GpioSeq>
  cmdQueue,             \* FreeRTOS queue of Command (field id is history only)
  connState,            \* ConnState
  lastHeartbeat, lastStateSent, lastCommandProcess, lastWiFiRetry,
  lastIdentifyAttempt, lastCfgSave,
  pendingState, identified, isOfflineMode, cfgDirty,
  relay,                \* output level last written to each relay pin
  led,                  \* level last written to STATUS_LED_PIN
  nvs,                  \* Preferences namespace "switchcfg": key -> value
  wifiUp,               \* WiFi.status() == WL_CONNECTED
  wsConnected,          \* ws.isConnected()
  pin,                  \* raw level of every manual input pin
  now,                  \* millis()
  pc,                   \* position of the control loop
  txLog,                \* history: every message handed to ws.sendTXT
  enqLog,               \* history: every call of queueSwitchCommand
  applied,              \* history: every command taken out of the queue
  scanLog,              \* history: what the last handleManualSwitches saw
  wsBegun,              \* ws.begin() / ws.onEvent() have been called
  hist,                 \* history: counters (see Hist0)
  used                  \* history: environment events that have happened

vars == << switchesLocal, lastSeqs, cmdQueue, connState, lastHeartbeat,
           lastStateSent, lastCommandProcess, lastWiFiRetry,
           lastIdentifyAttempt, lastCfgSave, pendingState, identified,
           isOfflineMode, cfgDirty, relay, led, nvs, wifiUp, wsConnected,
           pin, now, pc, txLog, enqLog, applied, scanLog, wsBegun, hist,
           used >>

(***************************************************************************)
(* Program constants                                                       *)
(***************************************************************************)
LOW == 0
HIGH == 1
RELAY_ON_LEVEL == LOW
RELAY_OFF_LEVEL == HIGH
HEARTBEAT_MS == 30000
STATE_DEBOUNCE_MS == 200
MANUAL_DEBOUNCE_MS == 30
MAX_COMMAND_QUEUE == 16
COMMAND_PROCESS_INTERVAL == 100
WIFI_RETRY_INTERVAL_MS == 30000
IDENTIFY_RETRY_MS == 10000
CFG_SAVE_MIN_INTERVAL_MS == 5000
MAX_SWITCHES == 8
MaxPerTick == 4
LoopDelayMs == 10
WifiPollMs == 500
WifiWaitMs == 10000

(***************************************************************************)
(* Bounds of the exploration                                               *)
(***************************************************************************)
\* control-loop iterations explored after setup()
MaxLoops == 6
\* inbound text frames delivered in one run
MaxMsgs == 2
\* changes of a manual input level in one run
MaxFlips == 1
\* WebSocket connection / disconnection events in one run
MaxLinkEvents == 1
\* power cycles in one run
MaxBoots == 1

(***************************************************************************)
(* Values                                                                  *)
(***************************************************************************)
\* A String that is either a literal or a literal followed by a number.
Str(text, n) == << text, n >>

\* struct SwitchState, with its default member initialisers (SwitchState sw {}).
SwitchState0 ==
  [ gpio |-> 0, state |-> FALSE, name |-> Str("", -1), manualGpio |-> -1,
    manualEnabled |-> FALSE, manualActiveLow |-> TRUE,
    manualMomentary |-> FALSE, lastManualLevel |-> -1,
    lastManualChangeMs |-> 0, stableManualLevel |-> -1,
    lastManualActive |-> FALSE, defaultState |-> FALSE,
    manualOverride |-> FALSE ]

\* const SwitchConfig defaultSwitchConfigs[MAX_SWITCHES]
defaultSwitchConfigs ==
  << [relayPin |-> 4,  manualPin |-> 25, name |-> Str("Fan1", -1), manualActiveLow |-> TRUE],
     [relayPin |-> 16, manualPin |-> 27, name |-> Str("Fan2", -1), manualActiveLow |-> TRUE],
     [relayPin |-> 17, manualPin |-> 32, name |-> Str("Light1", -1), manualActiveLow |-> TRUE],
     [relayPin |-> 5,  manualPin |-> 33, name |-> Str("Light2", -1), manualActiveLow |-> TRUE],
     [relayPin |-> 19, manualPin |-> 12, name |-> Str("Projector", -1), manualActiveLow |-> TRUE],
     [relayPin |-> 18, manualPin |-> 14, name |-> Str("NComputing", -1), manualActiveLow |-> TRUE],
     [relayPin |-> 21, manualPin |-> 13, name |-> Str("AC Unit", -1), manualActiveLow |-> TRUE],
     [relayPin |-> 22, manualPin |-> 15, name |-> Str("Printer", -1), manualActiveLow |-> TRUE] >>

\* Pins the model drives or samples.
RelayPins == {4, 16, 17, 5, 19, 18, 21, 22, 23}
InputPins == {25, 27, 32, 33, 12, 14, 13, 15}

\* History counters: configuration replacements (epoch), WStype_CONNECTED
\* events (sessions), calls of lastSeqs.clear() (clears), digitalWrite calls
\* on relay pins (writes), and per registry index the raw flips sampled and
\* the stable transitions committed in the current burst (burst): a burst is
\* a run of sampled flips each less than MANUAL_DEBOUNCE_MS after the one
\* before, with the samples that follow it until the next burst starts.
\* saves lists every execution of saveConfigToNVS: when, with what value of
\* cfgDirty, in which power cycle, from which caller, and how many channels
\* the registry held and how many were written.  tx holds, for every entry of
\* txLog, the values of identified and connState when it was sent.  lastType
\* is the type of the last text frame handled.  loaded holds the state every
\* registry entry had when the registry was last loaded or replaced.  bad
\* counts the text frames that did not parse or had no handled type.  torn
\* lists the saves that a power loss cut short: the store before the save,
\* the registry being saved, the number of put calls completed.  payload
\* holds the array of the last configuration payload loaded and the loop
\* iteration and power cycle it was loaded in.
Hist0 ==
  [epoch |-> 0, sessions |-> 0, clears |-> 0, writes |-> 0, burst |-> << >>,
   saves |-> << >>, tx |-> << >>, lastType |-> "", loaded |-> << >>,
   bad |-> 0, torn |-> << >>, payload |-> << >>]
Used0 == [loops |-> 0, msgs |-> 0, flips |-> 0, links |-> 0, boots |-> 0]

\* The machine state of the current TLA+ state, as one record.
Cur ==
  [ switchesLocal |-> switchesLocal, lastSeqs |-> lastSeqs, cmdQueue |-> cmdQueue,
    connState |-> connState, lastHeartbeat |-> lastHeartbeat,
    lastStateSent |-> lastStateSent, lastCommandProcess |-> lastCommandProcess,
    lastWiFiRetry |-> lastWiFiRetry, lastIdentifyAttempt |-> lastIdentifyAttempt,
    lastCfgSave |-> lastCfgSave, pendingState |-> pendingState,
    identified |-> identified, isOfflineMode |-> isOfflineMode,
    cfgDirty |-> cfgDirty, relay |-> relay, led |-> led, nvs |-> nvs,
    wifiUp |-> wifiUp, wsConnected |-> wsConnected, pin |-> pin, now |-> now,
    txLog |-> txLog, enqLog |-> enqLog, applied |-> applied,
    scanLog |-> scanLog, wsBegun |-> wsBegun, hist |-> hist,
    used |-> used ]

\* The next TLA+ state holds machine state s at loop position p.
Install(s, p) ==
  /\ switchesLocal' = s.switchesLocal
  /\ lastSeqs' = s.lastSeqs
  /\ cmdQueue' = s.cmdQueue
  /\ connState' = s.connState
  /\ lastHeartbeat' = s.lastHeartbeat
  /\ lastStateSent' = s.lastStateSent
  /\ lastCommandProcess' = s.lastCommandProcess
  /\ lastWiFiRetry' = s.lastWiFiRetry
  /\ lastIdentifyAttempt' = s.lastIdentifyAttempt
  /\ lastCfgSave' = s.lastCfgSave
  /\ pendingState' = s.pendingState
  /\ identified' = s.identified
  /\ isOfflineMode' = s.isOfflineMode
  /\ cfgDirty' = s.cfgDirty
  /\ relay' = s.relay
  /\ led' = s.led
  /\ nvs' = s.nvs
  /\ wifiUp' = s.wifiUp
  /\ wsConnected' = s.wsConnected
  /\ pin' = s.pin
  /\ now' = s.now
  /\ txLog' = s.txLog
  /\ enqLog' = s.enqLog
  /\ applied' = s.applied
  /\ scanLog' = s.scanLog
  /\ wsBegun' = s.wsBegun
  /\ hist' = s.hist
  /\ used' = s.used
  /\ pc' = p

(***************************************************************************)
(* Pin-level I/O and the JSON / NVS accessors                              *)
(***************************************************************************)
\* digitalWrite(p, level) on a relay pin.
digitalWrite(s, p, level) ==
  [s EXCEPT !.relay = (p :> level) @@ s.relay, !.hist.writes = @ + 1]

\* digitalRead(p) of a manual input pin.
digitalRead(s, p) == IF p \in DOMAIN s.pin THEN s.pin[p] ELSE HIGH

RelayLevel(state) == IF state THEN RELAY_ON_LEVEL ELSE RELAY_OFF_LEVEL

\* obj[key] | dflt : the member when present (and of the right type), else dflt.
JsonOr(obj, key, dflt) == IF key \in DOMAIN obj THEN obj[key] ELSE dflt

\* prefs.getX(key, dflt) and prefs.putX(key, v).
NvsKey(field, i) == << field, i >>
prefsGet(store, key, dflt) == IF key \in DOMAIN store THEN store[key] ELSE dflt
prefsPut(store, key, v) ==
  (key :> v) @@ store
EmptyNvs == [k \in {} |-> 0]

Min(a, b) == IF a < b THEN a ELSE b

\* active level of a manual input: activeLow ? (level == LOW) : (level == HIGH)
ManualActive(activeLow, level) == IF activeLow THEN level = LOW ELSE level = HIGH

\* Mutant: the debounce fields are not taken from the pin.
InitManualInputIdle(s, sw) == sw

\* The manual-input block shared by both loaders: sample the input once and
\* start the debounce tracker from that sample.
InitManualInput(s, sw) ==
  IF sw.manualEnabled /\ sw.manualGpio >= 0
  THEN LET lvl == digitalRead(s, sw.manualGpio) IN
       [sw EXCEPT !.lastManualLevel = lvl, !.stableManualLevel = lvl,
                  !.lastManualActive = ManualActive(sw.manualActiveLow, lvl)]
  ELSE sw

(***************************************************************************)
(* loadConfigFromJsonArray                                                 *)
(***************************************************************************)
\* One iteration of the for loop over the array.
LoadJsonObject(s, obj) ==
  LET g == JsonOr(obj, "gpio", -1) IN
  IF g < 0 THEN s
  ELSE LET sw0 == [SwitchState0 EXCEPT
                     !.gpio = g,
                     !.state = JsonOr(obj, "state", FALSE),
                     !.defaultState = JsonOr(obj, "default", FALSE),
                     !.manualEnabled = JsonOr(obj, "manual_en", FALSE),
                     !.manualGpio = JsonOr(obj, "manual_gpio", -1),
                     !.manualActiveLow = JsonOr(obj, "active_low", TRUE),
                     !.manualMomentary = JsonOr(obj, "momentary", FALSE),
                     !.name = JsonOr(obj, "name", Str("Switch ", g)),
                     !.manualOverride = JsonOr(obj, "override", FALSE)]
           s1 == digitalWrite(s, g, RelayLevel(sw0.state))
           sw == InitManualInput(s1, sw0)
       IN [s1 EXCEPT !.switchesLocal = Append(@, sw)]

RECURSIVE LoadJsonFrom(_, _, _)
LoadJsonFrom(s, arr, i) ==
  IF i > Len(arr) THEN s
  ELSE LoadJsonFrom(LoadJsonObject(s, arr[i]), arr, i + 1)

\* The history of the states just loaded.
Loaded(s) ==
  [s EXCEPT !.hist.loaded = [i \in 1..Len(s.switchesLocal) |->
                               s.switchesLocal[i].state]]

loadConfigFromJsonArray(s, arr) ==
  Loaded(LoadJsonFrom([s EXCEPT !.switchesLocal = << >>, !.hist.epoch = @ + 1,
                                 !.hist.burst = << >>,
                                 !.hist.payload =
                                   << [arr |-> arr, loops |-> s.used.loops,
                                       boot |-> s.used.boots] >>], arr, 1))

(***************************************************************************)
(* saveConfigToNVS / loadConfigFromNVS / maybeSaveConfig                   *)
(***************************************************************************)
\* The nine put calls of index i (C index i is element i + 1 of the sequence).
SaveSlot(store, sw, i) ==
  LET s1 == prefsPut(store, NvsKey("gpio", i), sw.gpio)
      s2 == prefsPut(s1, NvsKey("state", i), sw.state)
      s3 == prefsPut(s2, NvsKey("default", i), sw.defaultState)
      s4 == prefsPut(s3, NvsKey("manual_en", i), sw.manualEnabled)
      s5 == prefsPut(s4, NvsKey("manual_gpio", i), sw.manualGpio)
      s6 == prefsPut(s5, NvsKey("active_low", i), sw.manualActiveLow)
      s7 == prefsPut(s6, NvsKey("momentary", i), sw.manualMomentary)
      s8 == prefsPut(s7, NvsKey("name", i), sw.name)
  IN prefsPut(s8, NvsKey("override", i), sw.manualOverride)

RECURSIVE SaveSlotsFrom(_, _, _, _)
SaveSlotsFrom(store, sws, i, n) ==
  IF i >= n THEN store
  ELSE SaveSlotsFrom(SaveSlot(store, sws[i + 1], i), sws, i + 1, n)

saveConfigToNVS(s) ==
  LET numSwitches == Min(Len(s.switchesLocal), MAX_SWITCHES)
      s1 == prefsPut(s.nvs, NvsKey("count", 0), numSwitches)
  IN [s EXCEPT !.nvs = SaveSlotsFrom(s1, s.switchesLocal, 0, numSwitches),
               !.hist.saves = Append(@, [at |-> s.now, dirty |-> s.cfgDirty,
                                         boot |-> s.used.boots,
                                         via |-> "direct",
                                         size |-> Len(s.switchesLocal),
                                         written |-> numSwitches])]

\* One iteration of the for loop of loadConfigFromNVS.
LoadSlot(s, i) ==
  LET g == prefsGet(s.nvs, NvsKey("gpio", i), -1) IN
  IF g < 0 THEN s
  ELSE LET sw0 == [SwitchState0 EXCEPT
                     !.gpio = g,
                     !.state = prefsGet(s.nvs, NvsKey("state", i), FALSE),
                     !.defaultState = prefsGet(s.nvs, NvsKey("default", i), FALSE),
                     !.manualEnabled = prefsGet(s.nvs, NvsKey("manual_en", i), FALSE),
                     !.manualGpio = prefsGet(s.nvs, NvsKey("manual_gpio", i), -1),
                     !.manualActiveLow = prefsGet(s.nvs, NvsKey("active_low", i), TRUE),
                     !.manualMomentary = prefsGet(s.nvs, NvsKey("momentary", i), FALSE),
                     !.name = prefsGet(s.nvs, NvsKey("name", i), Str("Switch ", i + 1)),
                     !.manualOverride = prefsGet(s.nvs, NvsKey("override", i), FALSE)]
           s1 == digitalWrite(s, g, RelayLevel(sw0.state))
           sw == InitManualInput(s1, sw0)
       IN [s1 EXCEPT !.switchesLocal = Append(@, sw)]

RECURSIVE LoadSlotsFrom(_, _, _)
LoadSlotsFrom(s, i, n) ==
  IF i >= n THEN s ELSE LoadSlotsFrom(LoadSlot(s, i), i + 1, n)

loadConfigFromNVS(s) ==
  LET numSwitches == prefsGet(s.nvs, NvsKey("count", 0), 0) IN
  IF numSwitches <= 0 \/ numSwitches > MAX_SWITCHES THEN s
  ELSE LoadSlotsFrom([s EXCEPT !.switchesLocal = << >>, !.hist.burst = << >>],
                     0, numSwitches)

\* The put calls of saveConfigToNVS in program order, as << key, value >>.
SlotWrites(sw, i) ==
  << << NvsKey("gpio", i), sw.gpio >>,
     << NvsKey("state", i), sw.state >>,
     << NvsKey("default", i), sw.defaultState >>,
     << NvsKey("manual_en", i), sw.manualEnabled >>,
     << NvsKey("manual_gpio", i), sw.manualGpio >>,
     << NvsKey("active_low", i), sw.manualActiveLow >>,
     << NvsKey("momentary", i), sw.manualMomentary >>,
     << NvsKey("name", i), sw.name >>,
     << NvsKey("override", i), sw.manualOverride >> >>

RECURSIVE SaveWritesFrom(_, _, _)
SaveWritesFrom(sws, i, n) ==
  IF i >= n THEN << >>
  ELSE SlotWrites(sws[i + 1], i) \o SaveWritesFrom(sws, i + 1, n)

SaveWrites(s) ==
  LET numSwitches == Min(Len(s.switchesLocal), MAX_SWITCHES) IN
  << << NvsKey("count", 0), numSwitches >> >>
    \o SaveWritesFrom(s.switchesLocal, 0, numSwitches)

RECURSIVE PutFirst(_, _, _)
PutFirst(store, writes, k) ==
  IF k = 0 THEN store
  ELSE prefsPut(PutFirst(store, writes, k - 1), writes[k][1], writes[k][2])

\* saveConfigToNVS cut short by a power loss after k put calls.
saveInterrupted(s, k) ==
  [s EXCEPT !.nvs = PutFirst(s.nvs, SaveWrites(s), k),
            !.hist.torn = Append(@, [oldNvs |-> s.nvs,
                                     newReg |-> s.switchesLocal,
                                     k |-> k, boot |-> s.used.boots,
                                     loops |-> s.used.loops])]

\* The save of maybeSaveConfig, marked in the history as made by it.
SaveAndStamp(s) ==
  LET s1 == saveConfigToNVS(s) IN
  [s1 EXCEPT !.lastCfgSave = s.now, !.cfgDirty = FALSE,
             !.hist.saves[Len(s1.hist.saves)].via = "maybeSaveConfig"]

\* Mutant: the minimum interval is not tested.
maybeSaveConfigEager(s) == IF ~s.cfgDirty THEN s ELSE SaveAndStamp(s)

maybeSaveConfig(s) ==
  IF ~s.cfgDirty THEN s
  ELSE IF s.now - s.lastCfgSave < CFG_SAVE_MIN_INTERVAL_MS THEN s
  ELSE SaveAndStamp(s)

(***************************************************************************)
(* setupRelays                                                             *)
(***************************************************************************)
\* One iteration of the factory-default loop.
DefaultSwitch(s, i) ==
  LET c == defaultSwitchConfigs[i + 1]
      s1 == digitalWrite(s, c.relayPin, RELAY_OFF_LEVEL)
      lvl == digitalRead(s1, c.manualPin)
      sw == [SwitchState0 EXCEPT
               !.gpio = c.relayPin, !.state = FALSE, !.defaultState = FALSE,
               !.name = c.name, !.manualOverride = FALSE,
               !.manualEnabled = TRUE, !.manualGpio = c.manualPin,
               !.manualActiveLow = c.manualActiveLow,
               !.manualMomentary = FALSE,
               !.lastManualLevel = lvl, !.stableManualLevel = lvl,
               !.lastManualActive = ManualActive(c.manualActiveLow, lvl)]
  IN [s1 EXCEPT !.switchesLocal = Append(@, sw)]

RECURSIVE DefaultsFrom(_, _)
DefaultsFrom(s, i) ==
  IF i >= MAX_SWITCHES THEN s ELSE DefaultsFrom(DefaultSwitch(s, i), i + 1)

RECURSIVE DriveRelaysFrom(_, _)
DriveRelaysFrom(s, i) ==
  IF i > Len(s.switchesLocal) THEN s
  ELSE DriveRelaysFrom(
         digitalWrite(s, s.switchesLocal[i].gpio,
                      RelayLevel(s.switchesLocal[i].state)), i + 1)

\* Mutant: the factory defaults are not persisted.
setupRelaysNoBaseline(s) ==
  LET s1 == loadConfigFromNVS(s) IN
  IF s1.switchesLocal = << >>
  THEN Loaded(DefaultsFrom(s1, 0))
  ELSE Loaded(DriveRelaysFrom(s1, 1))

setupRelays(s) ==
  LET s1 == loadConfigFromNVS(s) IN
  IF s1.switchesLocal = << >>
  THEN Loaded(saveConfigToNVS(DefaultsFrom(s1, 0)))
  ELSE Loaded(DriveRelaysFrom(s1, 1))

(***************************************************************************)
(* Outbound messages                                                       *)
(***************************************************************************)
sendJson(s, doc) ==
  IF ~s.wsConnected THEN s
  ELSE [s EXCEPT !.txLog = Append(@, doc),
                 !.hist.tx = Append(@, [identified |-> s.identified,
                                        connState |-> s.connState,
                                        epoch |-> s.hist.epoch,
                                        boot |-> s.used.boots])]

identify(s) ==
  [sendJson(s, [type |-> "identify", at |-> s.now])
     EXCEPT !.lastIdentifyAttempt = s.now]

\* Mutant: the state_update does not carry the override flags.
StateArrayNoOverride(sws) ==
  [i \in 1..Len(sws) |-> [gpio |-> sws[i].gpio, state |-> sws[i].state,
                          manual_override |-> FALSE]]

\* The "switches" array of a state_update.
StateArray(sws) ==
  [i \in 1..Len(sws) |-> [gpio |-> sws[i].gpio, state |-> sws[i].state,
                          manual_override |-> sws[i].manualOverride]]

sendStateUpdate(s, force) ==
  IF ~force /\ s.now - s.lastStateSent < STATE_DEBOUNCE_MS
  THEN [s EXCEPT !.pendingState = TRUE]
  ELSE LET s1 == [s EXCEPT !.pendingState = FALSE, !.lastStateSent = s.now] IN
       sendJson(s1, [type |-> "state_update", at |-> s.now, seq |-> s.now,
                     switches |-> StateArray(s.switchesLocal)])

sendHeartbeat(s) ==
  IF s.now - s.lastHeartbeat < HEARTBEAT_MS THEN s
  ELSE sendJson([s EXCEPT !.lastHeartbeat = s.now],
                [type |-> "heartbeat", at |-> s.now,
                 offline_mode |-> s.isOfflineMode])

(***************************************************************************)
(* Sequence tracker                                                        *)
(***************************************************************************)
RECURSIVE SeqIndexFrom(_, _, _)
SeqIndexFrom(seqs, gpio, i) ==
  IF i > Len(seqs) THEN 0
  ELSE IF seqs[i].gpio = gpio THEN i ELSE SeqIndexFrom(seqs, gpio, i + 1)

getLastSeq(s, gpio) ==
  LET i == SeqIndexFrom(s.lastSeqs, gpio, 1) IN
  IF i = 0 THEN -1 ELSE s.lastSeqs[i].seq

setLastSeq(s, gpio, seq) ==
  LET i == SeqIndexFrom(s.lastSeqs, gpio, 1) IN
  IF i = 0 THEN [s EXCEPT !.lastSeqs = Append(@, [gpio |-> gpio, seq |-> seq])]
  ELSE [s EXCEPT !.lastSeqs[i].seq = seq]

clearLastSeqs(s) == [s EXCEPT !.lastSeqs = << >>, !.hist.clears = @ + 1]

(***************************************************************************)
(* Command pipeline                                                        *)
(***************************************************************************)
\* Mutant: the item is put at the front of the queue (xQueueSendToFront).
xQueueSendToFront(q, cmd) == IF Len(q) < MAX_COMMAND_QUEUE THEN << cmd >> \o q ELSE q

\* Mutant: the capacity test is off by one.
xQueueSendOkOffByOne(q) == Len(q) <= MAX_COMMAND_QUEUE

\* xQueueSend(cmdQueue, &cmd, 0): pdTRUE and the item at the back when there
\* is room, else errQUEUE_FULL at once and the queue as it was.
xQueueSendOk(q) == Len(q) < MAX_COMMAND_QUEUE
xQueueSend(q, cmd) == IF xQueueSendOk(q) THEN Append(q, cmd) ELSE q

\* xQueueReceive(cmdQueue, &cmd, 0): the item at the front.
xQueueFront(q) == Head(q)
xQueueRest(q) == Tail(q)

\* queueSwitchCommand(gpio, state).  why = [src, seq] is history only: where
\* the call came from and the seq field of the message, which the source
\* parses and does not pass on.
queueSwitchCommand(s, gpio, state, why) ==
  LET id == Len(s.enqLog) + 1
      cmd == [gpio |-> gpio, state |-> state, valid |-> TRUE,
              timestamp |-> s.now, id |-> id]
      ok == xQueueSendOk(s.cmdQueue)
  IN [s EXCEPT !.cmdQueue = xQueueSend(@, cmd),
               !.enqLog = Append(@, [id |-> id, gpio |-> gpio, state |-> state,
                                     src |-> why.src, seq |-> why.seq,
                                     ok |-> ok, at |-> s.now,
                                     qlen |-> Len(s.cmdQueue),
                                     same |-> xQueueSend(s.cmdQueue, cmd) = s.cmdQueue,
                                     drained |-> Len(s.applied),
                                     sent |-> Len(s.txLog),
                                     boot |-> s.used.boots,
                                     epoch |-> s.hist.epoch,
                                     session |-> s.hist.sessions,
                                     clears |-> s.hist.clears])]

\* Index of the first registry entry with this gpio, 0 when there is none.
RECURSIVE SwitchIndexFrom(_, _, _)
SwitchIndexFrom(sws, gpio, i) ==
  IF i > Len(sws) THEN 0
  ELSE IF sws[i].gpio = gpio THEN i ELSE SwitchIndexFrom(sws, gpio, i + 1)

\* Mutant: the relay is driven but sw.state is not set.
ApplyAtNoState(s, i, state) ==
  LET g == s.switchesLocal[i].gpio
      s2 == digitalWrite(s, g, RelayLevel(state))
      s3 == [s2 EXCEPT !.switchesLocal[i].defaultState = state,
                       !.cfgDirty = TRUE]
  IN sendStateUpdate(s3, TRUE)

\* The body of the loop of applySwitchState for the matching entry i.
ApplyAt(s, i, state) ==
  LET g == s.switchesLocal[i].gpio
      s1 == [s EXCEPT !.switchesLocal[i].state = state]
      s2 == digitalWrite(s1, g, RelayLevel(state))
      s3 == [s2 EXCEPT !.switchesLocal[i].defaultState = state,
                       !.cfgDirty = TRUE]
  IN sendStateUpdate(s3, TRUE)

\* Mutant: an unknown gpio still marks the configuration dirty and broadcasts.
applySwitchStateLoud(s, gpio, state) ==
  LET i == SwitchIndexFrom(s.switchesLocal, gpio, 1) IN
  IF i = 0 THEN [st |-> sendStateUpdate([s EXCEPT !.cfgDirty = TRUE], TRUE),
                 ok |-> FALSE]
  ELSE [st |-> ApplyAt(s, i, state), ok |-> TRUE]

\* Mutant: an unknown gpio is driven to the requested level.
applySwitchStateDrives(s, gpio, state) ==
  LET i == SwitchIndexFrom(s.switchesLocal, gpio, 1) IN
  IF i = 0 THEN [st |-> digitalWrite(s, gpio, RelayLevel(state)), ok |-> FALSE]
  ELSE [st |-> ApplyAt(s, i, state), ok |-> TRUE]

\* applySwitchState(gpio, state): the machine state after the call (st) and
\* the value returned (ok).
applySwitchState(s, gpio, state) ==
  LET i == SwitchIndexFrom(s.switchesLocal, gpio, 1) IN
  IF i = 0 THEN [st |-> s, ok |-> FALSE]
  ELSE [st |-> ApplyAt(s, i, state), ok |-> TRUE]

\* History entry of one dequeued command: what it was, what the application
\* returned and which parts of the machine it touched.
AppliedEntry(s, cmd, r) ==
  LET e == s.enqLog[cmd.id]
      i == SwitchIndexFrom(r.st.switchesLocal, cmd.gpio, 1)
  IN [id |-> cmd.id, gpio |-> cmd.gpio, state |-> cmd.state, ok |-> r.ok,
      at |-> s.now, src |-> e.src, seq |-> e.seq, boot |-> s.used.boots,
      known |-> \E k \in DOMAIN s.switchesLocal :
                  s.switchesLocal[k].gpio = cmd.gpio,
      sent |-> Len(r.st.txLog) > Len(s.txLog),
      linked |-> s.wsConnected,
      sentBefore |-> s.lastStateSent,
      pendingAfter |-> r.st.pendingState,
      drove |-> r.st.hist.writes > s.hist.writes,
      quiet |-> /\ r.st.switchesLocal = s.switchesLocal
                /\ r.st.relay = s.relay
                /\ r.st.hist.writes = s.hist.writes
                /\ r.st.cfgDirty = s.cfgDirty
                /\ r.st.txLog = s.txLog
                /\ r.st.pendingState = s.pendingState
                /\ r.st.lastStateSent = s.lastStateSent,
      stateBefore |-> IF r.ok THEN
                        s.switchesLocal[SwitchIndexFrom(s.switchesLocal, cmd.gpio, 1)].state
                      ELSE FALSE,
      stateAfter |-> IF i = 0 THEN FALSE ELSE r.st.switchesLocal[i].state,
      levelAfter |-> IF cmd.gpio \in DOMAIN r.st.relay
                     THEN r.st.relay[cmd.gpio] ELSE -1,
      epochEnq |-> e.epoch, epoch |-> s.hist.epoch,
      sessionEnq |-> e.session, session |-> s.hist.sessions,
      clears |-> s.hist.clears]

\* One pass of the while loop of processCommandQueue.
DrainOne(s) ==
  LET cmd == xQueueFront(s.cmdQueue)
      s1 == [s EXCEPT !.cmdQueue = xQueueRest(@)]
      r == IF cmd.valid THEN applySwitchState(s1, cmd.gpio, cmd.state)
           ELSE [st |-> s1, ok |-> FALSE]
  IN [r.st EXCEPT !.applied = Append(@, AppliedEntry(s1, cmd, r))]

RECURSIVE DrainLoop(_, _)
DrainLoop(s, maxPerTick) ==
  IF maxPerTick = 0 \/ s.cmdQueue = << >> THEN s
  ELSE DrainLoop(DrainOne(s), maxPerTick - 1)

\* Mutant: one tick drains the whole queue.
processCommandQueueAll(s) ==
  IF s.now - s.lastCommandProcess < COMMAND_PROCESS_INTERVAL THEN s
  ELSE DrainLoop([s EXCEPT !.lastCommandProcess = s.now], MAX_COMMAND_QUEUE)

\* Mutant: the tick is stamped but nothing is taken from the queue.
processCommandQueueIdle(s) ==
  IF s.now - s.lastCommandProcess < COMMAND_PROCESS_INTERVAL THEN s
  ELSE [s EXCEPT !.lastCommandProcess = s.now]

processCommandQueue(s) ==
  IF s.now - s.lastCommandProcess < COMMAND_PROCESS_INTERVAL THEN s
  ELSE DrainLoop([s EXCEPT !.lastCommandProcess = s.now], MaxPerTick)

(***************************************************************************)
(* handleManualSwitches                                                    *)
(***************************************************************************)
\* Mutant: no debounce window.
DebounceElapsedNone(sw, nowMs) == nowMs - sw.lastManualChangeMs >= 0

\* The debounce test: the level differs from the stable one and has been
\* unchanged for the whole window.
DebounceElapsed(sw, nowMs) == nowMs - sw.lastManualChangeMs >= MANUAL_DEBOUNCE_MS

\* Mutant: the stable level is committed whenever the window has elapsed.
DebounceCommitAlways(sw, rawLevel, nowMs) == DebounceElapsed(sw, nowMs)

DebounceCommit(sw, rawLevel, nowMs) ==
  rawLevel # sw.stableManualLevel /\ DebounceElapsed(sw, nowMs)

\* Mutant: a momentary input fires on both edges.
ManualFiresBothEdges(sw, active) ==
  IF sw.manualMomentary THEN active # sw.lastManualActive
  ELSE active # sw.state

\* Mutant: a maintained input fires on every committed level change.
ManualFiresOnChange(sw, active) ==
  IF sw.manualMomentary THEN active /\ ~sw.lastManualActive
  ELSE active # sw.lastManualActive

\* Whether a committed level generates a command, and the state it asks for.
ManualFires(sw, active) ==
  IF sw.manualMomentary THEN active /\ ~sw.lastManualActive
  ELSE active # sw.state
ManualDesired(sw, active) == IF sw.manualMomentary THEN ~sw.state ELSE active

Burst0 == [flips |-> 0, commits |-> 0]
BurstOf(s, i) == IF i \in DOMAIN s.hist.burst THEN s.hist.burst[i] ELSE Burst0
SetBurst(s, i, n) ==
  [s EXCEPT !.hist.burst = [k \in 1..Len(s.switchesLocal) |->
                              IF k = i THEN n ELSE BurstOf(s, k)]]

\* The body of the for loop for registry entry i; the scanLog entry records
\* what this pass saw and did.
ManualOne(s, i) ==
  LET sw == s.switchesLocal[i] IN
  IF ~sw.manualEnabled \/ sw.manualGpio < 0
  THEN [s EXCEPT !.scanLog = Append(@, [gpio |-> sw.gpio, sampled |-> FALSE])]
  ELSE
    LET rawLevel == digitalRead(s, sw.manualGpio)
        flipped == rawLevel # sw.lastManualLevel
        sw1 == IF flipped
               THEN [sw EXCEPT !.lastManualLevel = rawLevel,
                               !.lastManualChangeMs = s.now]
               ELSE sw
        commit == DebounceCommit(sw1, rawLevel, s.now)
        active == ManualActive(sw1.manualActiveLow, rawLevel)
        fires == commit /\ ManualFires(sw1, active)
        sw2 == IF commit
               THEN [sw1 EXCEPT !.stableManualLevel = rawLevel,
                                !.manualOverride = IF fires THEN TRUE ELSE @,
                                !.lastManualActive = active]
               ELSE sw1
        s1 == IF fires
              THEN queueSwitchCommand(s, sw1.gpio, ManualDesired(sw1, active),
                                      [src |-> "manual", seq |-> -1])
              ELSE s
        s2 == [s1 EXCEPT !.switchesLocal[i] = sw2]
        newBurst == flipped /\ s.now - sw.lastManualChangeMs >= MANUAL_DEBOUNCE_MS
        b0 == IF newBurst THEN Burst0 ELSE BurstOf(s, i)
        s3 == SetBurst(s2, i, [flips |-> b0.flips + (IF flipped THEN 1 ELSE 0),
                               commits |-> b0.commits + (IF commit THEN 1 ELSE 0)])
    IN [s3 EXCEPT !.scanLog = Append(@,
          [gpio |-> sw.gpio, sampled |-> TRUE, raw |-> rawLevel,
           flipped |-> flipped, commit |-> commit, active |-> active,
           wasActive |-> sw.lastManualActive,
           momentary |-> sw.manualMomentary, stateBefore |-> sw.state,
           overrideBefore |-> sw.manualOverride,
           overrideAfter |-> sw2.manualOverride,
           at |-> s.now,
           lastLevelBefore |-> sw.lastManualLevel,
           lastLevelAfter |-> sw2.lastManualLevel,
           changeMsBefore |-> sw.lastManualChangeMs,
           changeMsAfter |-> sw2.lastManualChangeMs,
           stableBefore |-> sw.stableManualLevel,
           stableAfter |-> sw2.stableManualLevel,
           calls |-> Len(s1.enqLog) - Len(s.enqLog),
           firstId |-> Len(s.enqLog) + 1,
           queueBefore |-> s.cmdQueue, queueAfter |-> s1.cmdQueue])]

RECURSIVE ManualFrom(_, _)
ManualFrom(s, i) ==
  IF i > Len(s.switchesLocal) THEN s ELSE ManualFrom(ManualOne(s, i), i + 1)

handleManualSwitches(s) == ManualFrom([s EXCEPT !.scanLog = << >>], 1)

(***************************************************************************)
(* blinkStatus and the connectivity block of loop()                        *)
(***************************************************************************)
blinkStatus(s) ==
  LET pattern == CASE s.connState = "WIFI_DISCONNECTED" -> (s.now % 500) < 250
                   [] s.connState = "WIFI_ONLY" -> (s.now % 1000) < 500
                   [] OTHER -> (s.now % 2000) < 1000
  IN [s EXCEPT !.led = IF pattern THEN HIGH ELSE LOW]

loopConnectivity(s) ==
  IF ~s.wifiUp
  THEN LET s1 == [s EXCEPT !.connState = "WIFI_DISCONNECTED",
                           !.isOfflineMode = TRUE] IN
       IF s.now - s.lastWiFiRetry >= WIFI_RETRY_INTERVAL_MS
       THEN [s1 EXCEPT !.lastWiFiRetry = s.now]
       ELSE s1
  ELSE IF ~s.wsConnected
  THEN LET s1 == [s EXCEPT !.connState = "WIFI_ONLY", !.isOfflineMode = TRUE] IN
       IF ~s.identified /\ s.now - s.lastIdentifyAttempt >= IDENTIFY_RETRY_MS
       THEN identify(s1)
       ELSE s1
  ELSE [s EXCEPT !.connState = "BACKEND_CONNECTED", !.isOfflineMode = FALSE]

loopPending(s) == IF s.pendingState THEN sendStateUpdate(s, TRUE) ELSE s

(***************************************************************************)
(* onWsEvent                                                               *)
(***************************************************************************)
onWsConnected(s) ==
  LET s1 == [s EXCEPT !.identified = FALSE, !.isOfflineMode = FALSE,
                      !.connState = "BACKEND_CONNECTED", !.led = HIGH]
  IN sendStateUpdate(identify(s1), TRUE)

\* Mutant: the disconnect handler does not mark the configuration dirty.
onWsDisconnectedClean(s) ==
  maybeSaveConfig([s EXCEPT !.identified = FALSE, !.isOfflineMode = TRUE,
                            !.connState = "WIFI_ONLY", !.led = LOW])

onWsDisconnected(s) ==
  maybeSaveConfig([s EXCEPT !.identified = FALSE, !.isOfflineMode = TRUE,
                            !.connState = "WIFI_ONLY", !.led = LOW,
                            !.cfgDirty = TRUE])

onIdentified(s, doc) ==
  LET s1 == clearLastSeqs([s EXCEPT !.identified = TRUE,
                                    !.isOfflineMode = FALSE, !.led = HIGH])
  IN IF "switches" \in DOMAIN doc
     THEN loadConfigFromJsonArray(s1, doc.switches)
     ELSE s1

onConfigUpdate(s, doc) ==
  IF "switches" \in DOMAIN doc
  THEN loadConfigFromJsonArray(clearLastSeqs(s), doc.switches)
  ELSE s

\* relayGpio when it is an int, else gpio when it is an int, else -1.
CommandGpio(obj) ==
  IF "relayGpio" \in DOMAIN obj THEN obj.relayGpio ELSE JsonOr(obj, "gpio", -1)

onSwitchCommand(s, doc) ==
  LET gpio == CommandGpio(doc)
      requested == JsonOr(doc, "state", FALSE)
      seq == JsonOr(doc, "seq", -1)
  IN queueSwitchCommand(s, gpio, requested, [src |-> "ws", seq |-> seq])

\* The for loop over the commands array: st is the machine, n is processed.
RECURSIVE BulkFrom(_, _, _)
BulkFrom(acc, cmds, i) ==
  IF i > Len(cmds) THEN acc
  ELSE LET gpio == CommandGpio(cmds[i])
           requested == JsonOr(cmds[i], "state", FALSE)
           seq == JsonOr(cmds[i], "seq", -1)
       IN IF gpio >= 0
          THEN BulkFrom([st |-> queueSwitchCommand(acc.st, gpio, requested,
                                                   [src |-> "bulk", seq |-> seq]),
                         n |-> acc.n + 1], cmds, i + 1)
          ELSE BulkFrom(acc, cmds, i + 1)

onBulkSwitchCommand(s, doc) ==
  IF "commands" \in DOMAIN doc
  THEN LET r == BulkFrom([st |-> s, n |-> 0], doc.commands, 1) IN
       sendJson(r.st, [type |-> "bulk_switch_result", at |-> s.now,
                       processed |-> r.n, total |-> Len(doc.commands)])
  ELSE s

\* case WStype_TEXT.  A frame that does not parse is [parse_error |-> TRUE].
\* The history of a frame that did not parse or had no handled type.
BadFrame(s) == [s EXCEPT !.hist.lastType = "", !.hist.bad = @ + 1]

\* Mutant: a frame that does not parse ends the handshake.
onWsTextStrict(s, doc) ==
  IF "parse_error" \in DOMAIN doc THEN [BadFrame(s) EXCEPT !.identified = FALSE]
  ELSE LET msgType == JsonOr(doc, "type", "")
           s0 == [s EXCEPT !.hist.lastType = msgType]
       IN
       CASE msgType = "identified" -> onIdentified(s0, doc)
         [] msgType = "config_update" -> onConfigUpdate(s0, doc)
         [] msgType = "state_ack" -> s0
         [] msgType = "switch_command" -> onSwitchCommand(s0, doc)
         [] msgType = "bulk_switch_command" -> onBulkSwitchCommand(s0, doc)
         [] OTHER -> BadFrame(s)

onWsText(s, doc) ==
  IF "parse_error" \in DOMAIN doc THEN BadFrame(s)
  ELSE LET msgType == JsonOr(doc, "type", "")
           s0 == [s EXCEPT !.hist.lastType = msgType]
       IN
       CASE msgType = "identified" -> onIdentified(s0, doc)
         [] msgType = "config_update" -> onConfigUpdate(s0, doc)
         [] msgType = "state_ack" -> s0
         [] msgType = "switch_command" -> onSwitchCommand(s0, doc)
         [] msgType = "bulk_switch_command" -> onBulkSwitchCommand(s0, doc)
         [] OTHER -> BadFrame(s)

(***************************************************************************)
(* setup() and power-on                                                    *)
(***************************************************************************)
\* RAM after reset: the global initialisers.  NVS, the input pins, the link
\* and the history survive.
PowerOn(s) ==
  [s EXCEPT !.switchesLocal = << >>, !.lastSeqs = << >>, !.cmdQueue = << >>,
            !.connState = "WIFI_DISCONNECTED", !.lastHeartbeat = 0,
            !.lastStateSent = 0, !.lastCommandProcess = 0,
            !.lastWiFiRetry = 0, !.lastIdentifyAttempt = 0,
            !.lastCfgSave = 0, !.pendingState = FALSE, !.identified = FALSE,
            !.isOfflineMode = TRUE, !.cfgDirty = FALSE,
            !.relay = [p \in RelayPins |-> -1], !.led = -1,
            !.wsConnected = FALSE, !.wsBegun = FALSE, !.now = 0,
            !.scanLog = << >>, !.hist.burst = << >>, !.hist.loaded = << >>]

Blank ==
  PowerOn([ switchesLocal |-> << >>, lastSeqs |-> << >>, cmdQueue |-> << >>,
            connState |-> "WIFI_DISCONNECTED", lastHeartbeat |-> 0,
            lastStateSent |-> 0, lastCommandProcess |-> 0, lastWiFiRetry |-> 0,
            lastIdentifyAttempt |-> 0, lastCfgSave |-> 0,
            pendingState |-> FALSE, identified |-> FALSE,
            isOfflineMode |-> TRUE, cfgDirty |-> FALSE,
            relay |-> [p \in RelayPins |-> -1], led |-> -1, nvs |-> EmptyNvs,
            wifiUp |-> FALSE, wsConnected |-> FALSE,
            pin |-> [p \in InputPins |-> HIGH], now |-> 0, txLog |-> << >>,
            enqLog |-> << >>, applied |-> << >>, scanLog |-> << >>,
            wsBegun |-> FALSE, hist |-> Hist0, used |-> Used0 ])

\* setup(): the WiFi wait ends at the first poll when the link is there and
\* at the timeout when it is not; ws.begin() is called only in the first case.
setup(s) ==
  LET s1 == setupRelays([s EXCEPT !.cmdQueue = << >>, !.isOfflineMode = TRUE,
                                  !.connState = "WIFI_DISCONNECTED"])
      s2 == [s1 EXCEPT !.led = LOW]
      s3 == IF s2.wifiUp
            THEN [s2 EXCEPT !.now = @ + WifiPollMs, !.connState = "WIFI_ONLY",
                            !.wsBegun = TRUE, !.isOfflineMode = FALSE]
            ELSE [s2 EXCEPT !.now = @ + WifiWaitMs, !.isOfflineMode = TRUE]
  IN [s3 EXCEPT !.lastHeartbeat = s3.now, !.lastCommandProcess = s3.now,
                !.lastWiFiRetry = s3.now]

(***************************************************************************)
(* Inputs: configuration payloads, command frames, stored snapshots        *)
(***************************************************************************)
ChannelA ==
  [gpio |-> 4, state |-> FALSE, default |-> FALSE, manual_en |-> TRUE,
   manual_gpio |-> 25, active_low |-> TRUE, momentary |-> FALSE,
   name |-> Str("Fan1", -1)]
ChannelB ==
  [gpio |-> 16, state |-> TRUE, manual_en |-> TRUE, manual_gpio |-> 27,
   momentary |-> TRUE, override |-> FALSE]
CfgAB == << ChannelA, ChannelB >>
CfgA == << ChannelA >>
\* An entry without gpio is skipped; the second entry is loaded.
CfgSkip == << [state |-> TRUE, name |-> Str("NoGpio", -1)], ChannelB >>
\* Nine valid entries: one more than MAX_SWITCHES.
Cfg9 ==
  << [gpio |-> 4], [gpio |-> 16, state |-> TRUE], [gpio |-> 17], [gpio |-> 5],
     [gpio |-> 19], [gpio |-> 18], [gpio |-> 21], [gpio |-> 22],
     [gpio |-> 23, state |-> TRUE] >>

\* Two entries with the same gpio.
CfgDup == << [gpio |-> 4, state |-> FALSE], [gpio |-> 4, state |-> TRUE] >>

ConfigDoc(type, cfg) == [type |-> type, switches |-> cfg]

\* The snapshot a device holds that was configured with cfg and saved.
StoreOf(cfg) == saveConfigToNVS(loadConfigFromJsonArray(Blank, cfg)).nvs

\* A store whose count is above MAX_SWITCHES (left by another build).
StoreTooMany == prefsPut(StoreOf(Cfg9), NvsKey("count", 0), MAX_SWITCHES + 1)

SwitchCommandDoc(g, st, q) ==
  IF q < 0 THEN [type |-> "switch_command", gpio |-> g, state |-> st]
  ELSE [type |-> "switch_command", gpio |-> g, state |-> st, seq |-> q]

\* A bulk frame of n commands alternating between the two channels.
BulkDoc(n) ==
  [type |-> "bulk_switch_command",
   commands |-> [k \in 1..n |-> [gpio |-> IF k % 2 = 1 THEN 4 ELSE 16,
                                 state |-> (k % 3 = 0)]]]

(***************************************************************************)
(* Initial states                                                          *)
(***************************************************************************)
Start(s) ==
  /\ switchesLocal = s.switchesLocal
  /\ lastSeqs = s.lastSeqs
  /\ cmdQueue = s.cmdQueue
  /\ connState = s.connState
  /\ lastHeartbeat = s.lastHeartbeat
  /\ lastStateSent = s.lastStateSent
  /\ lastCommandProcess = s.lastCommandProcess
  /\ lastWiFiRetry = s.lastWiFiRetry
  /\ lastIdentifyAttempt = s.lastIdentifyAttempt
  /\ lastCfgSave = s.lastCfgSave
  /\ pendingState = s.pendingState
  /\ identified = s.identified
  /\ isOfflineMode = s.isOfflineMode
  /\ cfgDirty = s.cfgDirty
  /\ relay = s.relay
  /\ led = s.led
  /\ nvs = s.nvs
  /\ wifiUp = s.wifiUp
  /\ wsConnected = s.wsConnected
  /\ pin = s.pin
  /\ now = s.now
  /\ txLog = s.txLog
  /\ enqLog = s.enqLog
  /\ applied = s.applied
  /\ scanLog = s.scanLog
  /\ wsBegun = s.wsBegun
  /\ hist = s.hist
  /\ used = s.used
  /\ pc = "setup"

\* Power-on with one of the given snapshots in NVS and the link up or down.
InitWith(stores, links) ==
  \E store \in stores, w \in links :
    Start([Blank EXCEPT !.nvs = store, !.wifiUp = w])

(***************************************************************************)
(* Actions: the positions of loop(), the events of ws.loop(), environment  *)
(***************************************************************************)
Use(s, k) == [s EXCEPT !.used[k] = @ + 1]

Setup == pc = "setup" /\ Install(setup(Cur), "conn")

LoopConnectivity == pc = "conn" /\ Install(loopConnectivity(Cur), "ws")

WsIdle == pc = "ws" /\ Install(Cur, "drain")

WsConnected(maxLinks) ==
  /\ pc = "ws" /\ wsBegun /\ wifiUp /\ ~wsConnected
  /\ used.links < maxLinks
  /\ Install(onWsConnected([Use(Cur, "links") EXCEPT
                              !.wsConnected = TRUE,
                              !.hist.sessions = @ + 1]), "drain")

WsDisconnected(maxLinks) ==
  /\ pc = "ws" /\ wsConnected
  /\ used.links < maxLinks
  /\ Install(onWsDisconnected([Use(Cur, "links") EXCEPT !.wsConnected = FALSE]),
             "drain")

\* One text frame, drawn from docs.
WsText(docs, maxMsgs) ==
  /\ pc = "ws" /\ wsConnected
  /\ used.msgs < maxMsgs
  /\ \E doc \in docs : Install(onWsText(Use(Cur, "msgs"), doc), "drain")

ProcessCommandQueue == pc = "drain" /\ Install(processCommandQueue(Cur), "manual")

HandleManualSwitches == pc = "manual" /\ Install(handleManualSwitches(Cur), "hb")

SendHeartbeat == pc = "hb" /\ Install(sendHeartbeat(Cur), "blink")

BlinkStatus == pc = "blink" /\ Install(blinkStatus(Cur), "pending")

LoopPending == pc = "pending" /\ Install(loopPending(Cur), "save")

MaybeSaveConfig == pc = "save" /\ Install(maybeSaveConfig(Cur), "delay")

\* delay(10) and whatever else the iteration took: d in ds.
Delay(ds, maxLoops) ==
  /\ pc = "delay"
  /\ used.loops < maxLoops
  /\ \E d \in ds : Install([Use(Cur, "loops") EXCEPT !.now = @ + d], "conn")

\* The same, with the iterations counted only up to maxLoops while the queue
\* is empty: a non-empty queue lets the loop run slack iterations more.
DelayBusy(ds, maxLoops, slack) ==
  /\ pc = "delay"
  /\ \/ used.loops < maxLoops
     \/ cmdQueue # << >> /\ used.loops < maxLoops + slack
  /\ \E d \in ds : Install([Use(Cur, "loops") EXCEPT !.now = @ + d], "conn")

\* The environment, between two iterations.
PinFlip(pins, maxFlips) ==
  /\ pc = "delay"
  /\ used.flips < maxFlips
  /\ \E p \in pins :
       Install([Use(Cur, "flips") EXCEPT !.pin[p] = IF @ = LOW THEN HIGH ELSE LOW],
               "delay")

WifiChange(maxLinks) ==
  /\ pc = "delay"
  /\ used.links < maxLinks
  /\ Install([Use(Cur, "links") EXCEPT !.wifiUp = ~@], "delay")

Reboot(maxBoots) ==
  /\ pc = "delay"
  /\ used.boots < maxBoots
  /\ Install(PowerOn(Use(Cur, "boots")), "setup")

\* Power is lost while the save of maybeSaveConfig is between two put calls.
PowerLossInSave(maxBoots) ==
  /\ pc = "save"
  /\ cfgDirty /\ now - lastCfgSave >= CFG_SAVE_MIN_INTERVAL_MS
  /\ used.boots < maxBoots
  /\ \E k \in 1..(Len(SaveWrites(Cur)) - 1) :
       Install(PowerOn(Use(saveInterrupted(Cur, k), "boots")), "setup")

LoopSteps ==
  \/ Setup
  \/ LoopConnectivity
  \/ WsIdle
  \/ ProcessCommandQueue
  \/ HandleManualSwitches
  \/ SendHeartbeat
  \/ BlinkStatus
  \/ LoopPending
  \/ MaybeSaveConfig

(***************************************************************************)
(* Specifications                                                          *)
(***************************************************************************)
\* The general one: a configured device in one session; single commands with
\* seq, a configuration replace that removes channel 16, one manual input.
SpecDocs ==
  { ConfigDoc("config_update", CfgA), BulkDoc(3) }
    \cup { SwitchCommandDoc(16, st, q) : st \in BOOLEAN, q \in {1, 2} }
SpecDelays == {50}

Init == InitWith({StoreOf(CfgAB)}, {TRUE})

Next ==
  \/ LoopSteps
  \/ WsConnected(MaxLinkEvents)
  \/ WsText(SpecDocs, MaxMsgs)
  \/ Delay(SpecDelays, MaxLoops)
  \/ PinFlip({25}, MaxFlips)

Spec == Init /\ [][Next]_vars

(***************************************************************************)
(* Claims checked under Spec                                               *)
(***************************************************************************)
\* C2: two commands for the same channel are applied in the order in which
\* they were enqueued, whatever the interleaving of enqueues (single
\* commands, bulk commands, manual transitions) and drain steps; only
\* accepted commands are applied, and each at most once.
C2_SameChannelInOrder ==
  /\ \A i, j \in DOMAIN applied :
       (i < j /\ applied[i].gpio = applied[j].gpio) => applied[i].id < applied[j].id
  /\ \A k \in DOMAIN applied : enqLog[applied[k].id].ok

\* Two applied commands for one channel, one from a manual transition and one
\* from a bulk command, with a command of the other channel applied between.
C2_Witness ==
  \E i, j, m \in DOMAIN applied :
    /\ i < m /\ m < j
    /\ applied[i].gpio = applied[j].gpio
    /\ applied[m].gpio # applied[i].gpio
    /\ {applied[i].src, applied[j].src} = {"manual", "bulk"}

\* Entry k of the history is a remote command whose seq is not above a seq
\* already applied for its channel since the tracker was last cleared.
StaleAt(k) ==
  /\ applied[k].seq >= 0
  /\ \E j \in 1..(k - 1) :
       /\ applied[j].gpio = applied[k].gpio
       /\ applied[j].ok
       /\ applied[j].seq >= applied[k].seq
       /\ applied[j].clears = applied[k].clears

\* C3: a remote command with seq <= the last seq applied for its channel has
\* no observable effect: registry, relay output, dirty flag and broadcasts
\* are as before.
C3_StaleHasNoEffect ==
  \A k \in DOMAIN applied : StaleAt(k) => applied[k].quiet

\* C5: applying the same (channel, state) twice in succession leaves state
\* and relay level as after the first application, and the second
\* application sends no second state_update within STATE_DEBOUNCE_MS of the
\* first.
C5_SecondApplyIdempotent ==
  \A k \in DOMAIN applied :
    ( /\ k + 1 \in DOMAIN applied
      /\ applied[k].ok /\ applied[k + 1].ok
      /\ applied[k].gpio = applied[k + 1].gpio
      /\ applied[k].state = applied[k + 1].state
      /\ applied[k].epoch = applied[k + 1].epoch )
    => /\ applied[k + 1].stateAfter = applied[k].stateAfter
       /\ applied[k + 1].levelAfter = applied[k].levelAfter
       /\ ~( /\ applied[k].sent /\ applied[k + 1].sent
             /\ applied[k + 1].at - applied[k].at < STATE_DEBOUNCE_MS )

\* C10: a command applied for a channel id that the registry (the last
\* configuration payload) does not hold is rejected as unknown and changes
\* nothing, also when it was already queued when the payload arrived.
C10_RemovedIdRejected ==
  \A k \in DOMAIN applied :
    ~applied[k].known => (~applied[k].ok /\ applied[k].quiet)

\* A command for channel 16 that was queued before the configuration replace
\* that removed channel 16 has been taken out of the queue and rejected.
C10_Witness ==
  \E k \in DOMAIN applied :
    /\ applied[k].epochEnq < applied[k].epoch
    /\ ~applied[k].known
    /\ ~applied[k].ok
    /\ \A i \in DOMAIN switchesLocal : switchesLocal[i].gpio # applied[k].gpio

\* C9: for a maintained input, a committed level whose active value equals
\* the channel's current state issues no enqueue and leaves the override
\* flag as it was.
C9_MaintainedMatchingIsSilent ==
  \A k \in DOMAIN scanLog :
    LET e == scanLog[k] IN
    (e.sampled /\ ~e.momentary /\ e.commit /\ e.active = e.stateBefore) =>
      /\ e.calls = 0
      /\ e.queueAfter = e.queueBefore
      /\ e.overrideAfter = e.overrideBefore

\* A maintained input committed a level that matches the channel state, with
\* the override flag still clear.
C9_Witness ==
  \E k \in DOMAIN scanLog :
    /\ scanLog[k].sampled /\ ~scanLog[k].momentary /\ scanLog[k].commit
    /\ scanLog[k].active = scanLog[k].stateBefore
    /\ ~scanLog[k].overrideAfter

\* C12: of the commands applied within one window of STATE_DEBOUNCE_MS, at
\* most one sends a state_update.
C12_AppliesCoalesced ==
  \A j, k \in DOMAIN applied :
    ( /\ j < k
      /\ applied[j].ok /\ applied[k].ok
      /\ applied[k].at - applied[j].at < STATE_DEBOUNCE_MS )
    => ~(applied[j].sent /\ applied[k].sent)

BurstLoops == 6
\* bulk frames of SpecBurst
BurstMsgs == 1
BurstDocs == { BulkDoc(17), BulkDoc(20) }
BurstDelays == {50, 100}

InitBurst == InitWith({StoreOf(CfgAB)}, {TRUE})

NextBurst ==
  \/ LoopSteps
  \/ WsConnected(MaxLinkEvents)
  \/ WsText(BurstDocs, BurstMsgs)
  \/ Delay(BurstDelays, BurstLoops)

SpecBurst == InitBurst /\ [][NextBurst]_vars

IdsOf(seq) == [i \in 1..Len(seq) |-> seq[i].id]
Accepted == SelectSeq(enqLog, LAMBDA e : e.ok)
Dropped == SelectSeq(enqLog, LAMBDA e : ~e.ok)

\* C1: of N > 16 enqueues made on an empty queue with no drain step in
\* between, exactly the first 16 are accepted and the rest are dropped; a
\* dropped enqueue leaves the queue as it was; the accepted commands are
\* applied in FIFO order (what has been applied, followed by what is queued,
\* is the accepted commands in enqueue order).
C1_OverflowDropsNewest ==
  /\ Len(cmdQueue) <= MAX_COMMAND_QUEUE
  /\ \A i, j \in DOMAIN enqLog :
       ( /\ i <= j
         /\ enqLog[i].qlen = 0
         /\ enqLog[i].drained = enqLog[j].drained )
       => (enqLog[j].ok <=> j - i < MAX_COMMAND_QUEUE)
  /\ \A j \in DOMAIN enqLog : ~enqLog[j].ok => enqLog[j].same
  /\ IdsOf(applied) \o IdsOf(cmdQueue) = IdsOf(Accepted)

\* Scenario D: 20 enqueues in one run on an empty queue, 16 applied, 4
\* dropped, the queue drained.
C1_Witness ==
  /\ Len(enqLog) = 20
  /\ enqLog[1].qlen = 0
  /\ enqLog[20].drained = enqLog[1].drained
  /\ Len(Dropped) = 4
  /\ IdsOf(applied) = [i \in 1..16 |-> i]
  /\ cmdQueue = << >>

\* The enqueue calls made while the bulk frame answered by txLog[k] was
\* handled, and those of them the queue accepted.
BulkCalls(k) ==
  { j \in DOMAIN enqLog : enqLog[j].src = "bulk" /\ enqLog[j].at = txLog[k].at }
BulkAccepted(k) == { j \in BulkCalls(k) : enqLog[j].ok }

\* C21: every bulk_switch_result reports as processed the number of entries
\* of its frame that the queue accepted, and as total the number of entries.
C21_ProcessedCountsAccepted ==
  \A k \in DOMAIN txLog :
    txLog[k].type = "bulk_switch_result" =>
      /\ txLog[k].processed = Cardinality(BulkAccepted(k))
      /\ txLog[k].total >= Cardinality(BulkCalls(k))

\* C28: the drain step takes nothing out of the queue less than
\* COMMAND_PROCESS_INTERVAL after the previous tick; a tick takes the first
\* min(4, length) commands, applies them in order and leaves the rest queued
\* in order; two ticks that applied commands are at least the interval apart.
C28_DrainPaced ==
  /\ [][pc = "drain" =>
          LET due == now - lastCommandProcess >= COMMAND_PROCESS_INTERVAL
              n == IF due THEN Min(MaxPerTick, Len(cmdQueue)) ELSE 0
          IN /\ cmdQueue' = SubSeq(cmdQueue, n + 1, Len(cmdQueue))
             /\ Len(applied') = Len(applied) + n
             /\ IdsOf(SubSeq(applied', Len(applied) + 1, Len(applied')))
                  = IdsOf(SubSeq(cmdQueue, 1, n))
             /\ lastCommandProcess' = IF due THEN now ELSE lastCommandProcess]_vars
  /\ [](\A j, k \in DOMAIN applied :
          (j < k /\ applied[j].at # applied[k].at) =>
            applied[k].at - applied[j].at >= COMMAND_PROCESS_INTERVAL)

\* A full queue after its first tick: four applied, twelve still queued.
C28_Witness ==
  /\ pc = "manual"
  /\ Len(applied) = MaxPerTick
  /\ Len(cmdQueue) = MAX_COMMAND_QUEUE - MaxPerTick

(***************************************************************************)
(* SpecSession: a session that drops and is established again              *)
(***************************************************************************)
\* control-loop iterations of SpecSession
SessionLoops == 7
\* text frames of SpecSession
SessionMsgs == 4
\* connection events of SpecSession
SessionLinks == 3
SessionDocs ==
  { ConfigDoc("identified", CfgAB), SwitchCommandDoc(16, FALSE, 2),
    SwitchCommandDoc(16, TRUE, 1) }
SessionDelays == {100}

InitSession == InitWith({StoreOf(CfgAB)}, {TRUE})

NextSession ==
  \/ LoopSteps
  \/ WsConnected(SessionLinks)
  \/ WsDisconnected(SessionLinks)
  \/ WsText(SessionDocs, SessionMsgs)
  \/ Delay(SessionDelays, SessionLoops)

SpecSession == InitSession /\ [][NextSession]_vars

\* Entry k is a command for a known channel whose seq was already reached by
\* a command applied for that channel in an earlier session, with an
\* identified message handled since.
StaleBeforeReconnect(k) ==
  /\ applied[k].seq >= 0
  /\ applied[k].known
  /\ \E j \in 1..(k - 1) :
       /\ applied[j].gpio = applied[k].gpio
       /\ applied[j].ok
       /\ applied[j].seq >= applied[k].seq
       /\ applied[j].session < applied[k].sessionEnq
       /\ applied[j].clears < enqLog[applied[k].id].clears

\* C4: the step that handles identified leaves lastSeqs empty, and a command
\* whose seq was stale in the previous session is applied, once, in the new
\* one.
C4_FreshSessionAcceptsOldSeq ==
  /\ [][(~identified /\ identified') => lastSeqs' = << >>]_vars
  /\ [](\A k \in DOMAIN applied :
          StaleBeforeReconnect(k) =>
            /\ applied[k].ok
            /\ applied[k].stateAfter = applied[k].state
            /\ applied[k].levelAfter = RelayLevel(applied[k].state)
            /\ \A m \in DOMAIN applied : applied[m].id = applied[k].id => m = k)

\* Scenario E: seq 2 applied in the first session, the session dropped and
\* re-established, identified handled, then seq 1 applied and changing the
\* channel.
C4_Witness ==
  \E k \in DOMAIN applied :
    /\ StaleBeforeReconnect(k)
    /\ applied[k].ok
    /\ applied[k].stateBefore # applied[k].stateAfter
    /\ lastSeqs = << >>

(***************************************************************************)
(* SpecManual: the manual inputs of an offline device                      *)
(***************************************************************************)
\* control-loop iterations of SpecManual
ManualLoops == 6
\* changes of input level of SpecManual
ManualFlips == 3
ManualDelays == {10, 30}

InitManual == InitWith({StoreOf(CfgAB)}, {FALSE})

NextManual ==
  \/ LoopSteps
  \/ Delay(ManualDelays, ManualLoops)
  \/ PinFlip({25, 27}, ManualFlips)

SpecManual == InitManual /\ [][NextManual]_vars

\* C7: a burst of raw flips, each sampled less than MANUAL_DEBOUNCE_MS after
\* the one before, commits stableManualLevel at most once and enqueues at
\* most one command.
C7_BurstCommitsOnce ==
  /\ \A i \in DOMAIN hist.burst : hist.burst[i].commits <= 1
  /\ \A k \in DOMAIN scanLog :
       scanLog[k].sampled =>
         scanLog[k].calls <= (IF scanLog[k].commit THEN 1 ELSE 0)

\* A burst of three sampled flips that ended in one commit.
C7_Witness ==
  \E i \in DOMAIN hist.burst :
    hist.burst[i].flips >= 3 /\ hist.burst[i].commits = 1

\* The command a manual pass issued, as queueSwitchCommand received it.
IssuedBy(e) == enqLog[e.firstId]

\* C8: for a momentary input, a debounced inactive-to-active edge issues
\* exactly one enqueue, for the channel and with the negation of its current
\* state (put at the back of the queue when there is room); a debounced
\* active-to-inactive edge and a sample without a debounced edge issue none.
C8_MomentaryTogglesOnRisingEdge ==
  \A k \in DOMAIN scanLog :
    LET e == scanLog[k] IN
    (e.sampled /\ e.momentary) =>
      IF e.commit /\ e.active /\ ~e.wasActive
      THEN /\ e.calls = 1
           /\ IssuedBy(e).gpio = e.gpio
           /\ IssuedBy(e).state = ~e.stateBefore
           /\ IssuedBy(e).src = "manual"
           /\ Len(e.queueBefore) < MAX_COMMAND_QUEUE =>
                /\ Len(e.queueAfter) = Len(e.queueBefore) + 1
                /\ e.queueAfter[Len(e.queueAfter)].id = e.firstId
                /\ e.queueAfter[Len(e.queueAfter)].state = ~e.stateBefore
      ELSE e.calls = 0 /\ e.queueAfter = e.queueBefore

\* Both edges of the momentary input of channel 16 have been committed: the
\* current pass saw the falling edge, a rising edge was committed before and
\* its command is in the history.
C8_Witness ==
  /\ \E k \in DOMAIN scanLog :
       /\ scanLog[k].sampled /\ scanLog[k].momentary
       /\ scanLog[k].commit /\ ~scanLog[k].active /\ scanLog[k].wasActive
  /\ \E j \in DOMAIN enqLog :
       enqLog[j].src = "manual" /\ enqLog[j].gpio = 16 /\ enqLog[j].ok

(***************************************************************************)
(* SpecPersist: configuration replaced, commands applied, power cycled     *)
(***************************************************************************)
\* control-loop iterations of SpecPersist
PersistLoops == 6
\* text frames of SpecPersist
PersistMsgs == 2
PersistDocs ==
  { ConfigDoc("config_update", Cfg9), ConfigDoc("config_update", CfgSkip),
    SwitchCommandDoc(4, TRUE, -1) }
PersistDelays == {100}

InitPersist == InitWith({StoreOf(CfgAB)}, {TRUE})

NextPersist ==
  \/ LoopSteps
  \/ WsConnected(MaxLinkEvents)
  \/ WsText(PersistDocs, PersistMsgs)
  \/ Delay(PersistDelays, PersistLoops)
  \/ PinFlip({27}, MaxFlips)
  \/ Reboot(MaxBoots)

SpecPersist == InitPersist /\ [][NextPersist]_vars

\* The fields of a registry the snapshot is about, in registry order.
Core(reg) ==
  [i \in 1..Len(reg) |->
     [gpio |-> reg[i].gpio, state |-> reg[i].state,
      defaultState |-> reg[i].defaultState,
      manualEnabled |-> reg[i].manualEnabled,
      manualGpio |-> reg[i].manualGpio,
      manualActiveLow |-> reg[i].manualActiveLow,
      manualMomentary |-> reg[i].manualMomentary,
      manualOverride |-> reg[i].manualOverride]]

\* The registry a device holds after saving the current one and loading the
\* snapshot into an empty registry.
SavedThenLoaded == loadConfigFromNVS(PowerOn(saveConfigToNVS(Cur))).switchesLocal

\* C6: saveConfigToNVS followed by loadConfigFromNVS reproduces the registry:
\* the same ids in the same order, the same states, default states, manual
\* configuration and override flags.
C6_SaveLoadRoundTrip == Core(SavedThenLoaded) = Core(switchesLocal)

(***************************************************************************)
(* SpecSave: mutations and session drops against the save limiter          *)
(***************************************************************************)
\* control-loop iterations of SpecSave
SaveLoops == 5
\* text frames of SpecSave
SaveMsgs == 2
\* connection events of SpecSave
SaveLinks == 2
SaveDocs == { SwitchCommandDoc(4, TRUE, -1), ConfigDoc("config_update", CfgA) }
SaveDelays == {100, 5000}

InitSave == InitWith({EmptyNvs, StoreOf(CfgAB)}, {TRUE})

NextSave ==
  \/ LoopSteps
  \/ WsConnected(SaveLinks)
  \/ WsDisconnected(SaveLinks)
  \/ WsText(SaveDocs, SaveMsgs)
  \/ Delay(SaveDelays, SaveLoops)

SpecSave == InitSave /\ [][NextSave]_vars

\* The executions of saveConfigToNVS made by maybeSaveConfig.
LimitedSaves == SelectSeq(hist.saves, LAMBDA e : e.via = "maybeSaveConfig")

\* C11 as stated: every execution of saveConfigToNVS finds the dirty flag set
\* and is at least CFG_SAVE_MIN_INTERVAL_MS after the execution before it.
C11_EverySaveLimited ==
  /\ \A k \in DOMAIN hist.saves : hist.saves[k].dirty
  /\ \A k \in 2..Len(hist.saves) :
       hist.saves[k].at - hist.saves[k - 1].at >= CFG_SAVE_MIN_INTERVAL_MS

\* C11 (amended): every save made by maybeSaveConfig (from the loop or from
\* the disconnect handler) finds the dirty flag set, and two consecutive ones
\* are at least CFG_SAVE_MIN_INTERVAL_MS apart; the baseline save of
\* setupRelays is made with the flag clear.
C11_LimitedSavesCoalesced ==
  /\ \A k \in DOMAIN LimitedSaves : LimitedSaves[k].dirty
  /\ \A k \in 2..Len(LimitedSaves) :
       LimitedSaves[k].at - LimitedSaves[k - 1].at >= CFG_SAVE_MIN_INTERVAL_MS
  /\ \A k \in DOMAIN hist.saves :
       hist.saves[k].via = "direct" => ~hist.saves[k].dirty

\* Two saves by maybeSaveConfig have happened, and the registry was dirty
\* for less than the interval before the second one was due.
C11_Witness ==
  /\ Len(LimitedSaves) >= 2
  /\ \E k \in DOMAIN applied : applied[k].ok /\ applied[k].at < CFG_SAVE_MIN_INTERVAL_MS

(***************************************************************************)
(* SpecLink: the link, the socket and the identify handshake               *)
(***************************************************************************)
\* control-loop iterations of SpecLink
LinkLoops == 5
\* text frames of SpecLink
LinkMsgs == 2
\* link and socket events of SpecLink
LinkEvents == 3
LinkDocs ==
  { ConfigDoc("identified", CfgAB), [type |-> "identified"],
    ConfigDoc("config_update", CfgA), SwitchCommandDoc(4, TRUE, -1) }
LinkDelays == {100, 10000}

InitLink == InitWith({StoreOf(CfgAB)}, {TRUE, FALSE})

NextLink ==
  \/ LoopSteps
  \/ WsConnected(LinkEvents)
  \/ WsDisconnected(LinkEvents)
  \/ WifiChange(LinkEvents)
  \/ WsText(LinkDocs, LinkMsgs)
  \/ Delay(LinkDelays, LinkLoops)

SpecLink == InitLink /\ [][NextLink]_vars

\* C14: every state_update, heartbeat and bulk_switch_result handed to the
\* socket was sent with the session established: identified received on the
\* current connection and connState = BACKEND_CONNECTED.
C14_OutboundOnlyWhenEstablished ==
  \A k \in DOMAIN txLog :
    txLog[k].type \in {"state_update", "heartbeat", "bulk_switch_result"} =>
      /\ hist.tx[k].identified
      /\ hist.tx[k].connState = "BACKEND_CONNECTED"

\* C15: connState = BACKEND_CONNECTED only with the handshake completed.
C15_EstablishedImpliesIdentified ==
  connState = "BACKEND_CONNECTED" => identified

\* C16: while the socket is open and identified has not been received, an
\* identify message has been sent within the last IDENTIFY_RETRY_MS, as seen
\* after the connectivity block of every loop iteration.
C16_IdentifyRetried ==
  (pc = "ws" /\ wifiUp /\ wsConnected /\ ~identified) =>
    \E k \in DOMAIN txLog :
      txLog[k].type = "identify" /\ now - txLog[k].at < IDENTIFY_RETRY_MS

\* C17: the step that handles WStype_DISCONNECTED leaves lastSeqs as it was
\* and marks the configuration dirty (the flag is set, or the save it asks
\* for was made in the same step); lastSeqs.clear() is called only by a step
\* that handles an identified or a config_update frame.
C17_DropKeepsTrackerMarksDirty ==
  /\ [][(pc = "ws" /\ wsConnected /\ ~wsConnected') =>
          /\ lastSeqs' = lastSeqs
          /\ hist'.clears = hist.clears
          /\ connState' = "WIFI_ONLY"
          /\ cfgDirty' \/ Len(hist'.saves) > Len(hist.saves)]_vars
  /\ [][hist'.clears # hist.clears =>
          /\ pc = "ws" /\ used'.msgs = used.msgs + 1
          /\ hist'.lastType \in {"identified", "config_update"}]_vars

\* An established session has dropped with the link still up, leaving the
\* flag set where it was clear before the session, and the tracker had been
\* cleared by the identified frame of that session.
C17_Witness ==
  /\ hist.sessions >= 1 /\ ~wsConnected /\ wifiUp
  /\ connState = "WIFI_ONLY" /\ pc = "drain"
  /\ hist.clears >= 1
  /\ cfgDirty /\ hist.saves = << >>
  /\ applied = << >>

(***************************************************************************)
(* SpecBoot: start-up from every kind of snapshot, replaces, commands      *)
(***************************************************************************)
\* control-loop iterations of SpecBoot
BootLoops == 4
\* text frames of SpecBoot
BootMsgs == 2
BootDocs ==
  { ConfigDoc("config_update", CfgDup), ConfigDoc("config_update", << >>),
    SwitchCommandDoc(4, TRUE, -1), SwitchCommandDoc(4, FALSE, -1) }
BootDelays == {100, 5000}
BootStores == { EmptyNvs, StoreOf(CfgAB), StoreOf(<< >>), StoreTooMany }

InitBoot == InitWith(BootStores, {TRUE})

NextBoot ==
  \/ LoopSteps
  \/ WsConnected(MaxLinkEvents)
  \/ WsText(BootDocs, BootMsgs)
  \/ Delay(BootDelays, BootLoops)
  \/ Reboot(MaxBoots)

SpecBoot == InitBoot /\ [][NextBoot]_vars

\* The channels a snapshot of n entries describes, read key by key.
SnapshotChannels(store, n) ==
  [i \in 1..n |->
     [gpio |-> store[NvsKey("gpio", i - 1)],
      state |-> store[NvsKey("state", i - 1)],
      defaultState |-> store[NvsKey("default", i - 1)],
      manualEnabled |-> store[NvsKey("manual_en", i - 1)],
      manualGpio |-> store[NvsKey("manual_gpio", i - 1)],
      manualActiveLow |-> store[NvsKey("active_low", i - 1)],
      manualMomentary |-> store[NvsKey("momentary", i - 1)],
      manualOverride |-> store[NvsKey("override", i - 1)]]]

\* The compiled factory defaults as channels, all OFF.
FactoryChannels ==
  [i \in 1..MAX_SWITCHES |->
     [gpio |-> defaultSwitchConfigs[i].relayPin, state |-> FALSE,
      defaultState |-> FALSE, manualEnabled |-> TRUE,
      manualGpio |-> defaultSwitchConfigs[i].manualPin,
      manualActiveLow |-> defaultSwitchConfigs[i].manualActiveLow,
      manualMomentary |-> FALSE, manualOverride |-> FALSE]]

SnapshotCount(store) == prefsGet(store, NvsKey("count", 0), 0)

\* C18: setup() with a valid snapshot (0 < count <= MAX_SWITCHES) leaves the
\* registry equal to the snapshot's channels and writes nothing; with an
\* absent or invalid one it leaves the factory defaults, all OFF, and the
\* snapshot rewritten to describe exactly them.
C18_StartupPrecedence ==
  [][pc = "setup" =>
       IF 0 < SnapshotCount(nvs) /\ SnapshotCount(nvs) <= MAX_SWITCHES
       THEN /\ Core(switchesLocal') = SnapshotChannels(nvs, SnapshotCount(nvs))
            /\ nvs' = nvs
            /\ hist'.saves = hist.saves
       ELSE /\ Core(switchesLocal') = FactoryChannels
            /\ \A i \in 1..MAX_SWITCHES :
                 relay'[defaultSwitchConfigs[i].relayPin] = RELAY_OFF_LEVEL
            /\ SnapshotCount(nvs') = MAX_SWITCHES
            /\ SnapshotChannels(nvs', MAX_SWITCHES) = FactoryChannels
            /\ Len(hist'.saves) = Len(hist.saves) + 1]_vars

\* The first start-up fell back to the factory defaults and persisted them;
\* after a power cycle the second start-up has loaded that snapshot.
C18_Witness ==
  /\ used.boots = 1 /\ pc = "conn"
  /\ Len(hist.saves) = 1
  /\ hist.saves[1].via = "direct" /\ hist.saves[1].boot = 0
  /\ Core(switchesLocal) = FactoryChannels

\* C19: no two entries of the registry have the same relay gpio.
C19_OneChannelPerId ==
  \A i, j \in DOMAIN switchesLocal :
    i # j => switchesLocal[i].gpio # switchesLocal[j].gpio

\* The applications, since the registry was last loaded or replaced, of
\* commands for gpio g that succeeded.
AppliedSinceLoad(g) ==
  { k \in DOMAIN applied :
      /\ applied[k].ok /\ applied[k].gpio = g
      /\ applied[k].epoch = hist.epoch /\ applied[k].boot = used.boots }

LastOf(ks) == CHOOSE k \in ks : \A m \in ks : m <= k

\* C20: the state of every channel is the desired state of the last command
\* applied to its id since the registry was loaded or replaced, or the loaded
\* state when there is none, and the level last written to its relay pin is
\* the level of that state.
C20_StateMirrorsLastApplied ==
  \A i \in DOMAIN switchesLocal :
    LET sw == switchesLocal[i]
        ks == AppliedSinceLoad(sw.gpio)
    IN /\ sw.state = (IF ks = {} THEN hist.loaded[i] ELSE applied[LastOf(ks)].state)
       /\ relay[sw.gpio] = RelayLevel(sw.state)

(***************************************************************************)
(* SpecInbound: well-formed and malformed frames on one session            *)
(***************************************************************************)
\* control-loop iterations of SpecInbound
InboundLoops == 5
\* text frames of SpecInbound
InboundMsgs == 4
\* A frame that is not JSON, a frame of a type without handler, a frame
\* without type, a switch_command without channel id, well-formed commands,
\* the acceptance of the handshake, a bulk frame with one entry without id.
InboundDocs ==
  { [parse_error |-> TRUE], [type |-> "ping"], [state |-> TRUE],
    [type |-> "switch_command", state |-> TRUE],
    SwitchCommandDoc(4, TRUE, -1), SwitchCommandDoc(16, FALSE, -1),
    [type |-> "identified"],
    [type |-> "bulk_switch_command",
     commands |-> << [gpio |-> 4, state |-> TRUE], [state |-> TRUE] >>] }
InboundDelays == {100}

InitInbound == InitWith({StoreOf(CfgAB)}, {TRUE})

NextInbound ==
  \/ LoopSteps
  \/ WsConnected(MaxLinkEvents)
  \/ WsText(InboundDocs, InboundMsgs)
  \/ Delay(InboundDelays, InboundLoops)

SpecInbound == InitInbound /\ [][NextInbound]_vars

\* C22: the step that handles a frame which does not parse or has no handled
\* type leaves the registry, the queue, lastSeqs, the dirty flag, identified
\* and connState as they were, drives and sends nothing, and leaves the
\* socket open.
C22_BadFrameContained ==
  [][hist'.bad # hist.bad =>
       /\ switchesLocal' = switchesLocal
       /\ cmdQueue' = cmdQueue
       /\ lastSeqs' = lastSeqs
       /\ cfgDirty' = cfgDirty
       /\ identified' = identified
       /\ connState' = connState
       /\ relay' = relay /\ nvs' = nvs /\ txLog' = txLog
       /\ enqLog' = enqLog
       /\ wsConnected' = wsConnected]_vars

\* On a session whose handshake was accepted, a frame that does not parse
\* and a frame of unknown type were handled, and the switch_command that
\* came after them was enqueued and applied.
C22_Witness ==
  /\ hist.bad = 2 /\ identified /\ hist.sessions = 1
  /\ hist.lastType = "switch_command"
  /\ Len(enqLog) = 1 /\ Len(applied) = 1
  /\ applied[1].ok

\* C26: a switch_command without channel id is not enqueued: no call of
\* queueSwitchCommand is made for a frame without gpio, and no queued command
\* has a negative gpio.
C26_MissingIdNotEnqueued ==
  /\ \A j \in DOMAIN enqLog : enqLog[j].src = "ws" => enqLog[j].gpio >= 0
  /\ \A i \in DOMAIN cmdQueue : cmdQueue[i].gpio >= 0


\* C23: a dequeued command whose gpio no registry entry has makes
\* applySwitchState return false, with no state_update sent, no relay pin
\* written, and the registry, the relay levels and the dirty flag as before.
C23_UnknownIdReportsFailure ==
  \A k \in DOMAIN applied :
    ~applied[k].known =>
      /\ ~applied[k].ok
      /\ ~applied[k].sent
      /\ ~applied[k].drove
      /\ applied[k].quiet

\* A command for channel 4 was dequeued after a configuration replace had
\* emptied the registry.
C23_Witness ==
  \E k \in DOMAIN applied :
    /\ applied[k].gpio = 4 /\ ~applied[k].known /\ ~applied[k].ok
    /\ applied[k].linked
    /\ switchesLocal = << >>

\* C24: where the status indicator is updated, a link that is down shows as
\* connState = WIFI_DISCONNECTED.
C24_LinkDownShowsDisconnected ==
  (pc = "blink" /\ ~wifiUp) => connState = "WIFI_DISCONNECTED"

(***************************************************************************)
(* SpecTorn: power lost in the middle of a save                            *)
(***************************************************************************)
\* control-loop iterations of SpecTorn
TornLoops == 4
\* text frames of SpecTorn
TornMsgs == 1
TornDocs == { SwitchCommandDoc(4, TRUE, -1), ConfigDoc("config_update", CfgA) }
TornDelays == {100, 5000}

InitTorn == InitWith({StoreOf(CfgAB)}, {TRUE})

NextTorn ==
  \/ LoopSteps
  \/ WsConnected(MaxLinkEvents)
  \/ WsText(TornDocs, TornMsgs)
  \/ Delay(TornDelays, TornLoops)
  \/ PowerLossInSave(MaxBoots)

SpecTorn == InitTorn /\ [][NextTorn]_vars

LastTorn == hist.torn[Len(hist.torn)]

\* What a load may give after the save LastTorn: the previous snapshot, the
\* registry that was being saved (the entries a save writes), or the factory
\* defaults that follow the absent / invalid signal.
TornOutcomes ==
  LET old == LastTorn.oldNvs
      new == Core(LastTorn.newReg)
  IN { IF 0 < SnapshotCount(old) /\ SnapshotCount(old) <= MAX_SWITCHES
       THEN SnapshotChannels(old, SnapshotCount(old)) ELSE FactoryChannels,
       SubSeq(new, 1, Min(Len(new), MAX_SWITCHES)),
       FactoryChannels }

\* C25: after a save cut short between two of its put calls, the registry
\* that the next start-up loads is the complete previous snapshot, the
\* complete new one, or the factory defaults of the absent / invalid case.
C25_LoadNeverPartial ==
  ( /\ hist.torn # << >>
    /\ pc = "conn"
    /\ used.boots = LastTorn.boot + 1
    /\ used.loops = LastTorn.loops )
  => Core(switchesLocal) \in TornOutcomes

(***************************************************************************)
(* Who changes a channel (checked under Spec)                              *)
(***************************************************************************)
\* The fields of a Channel: id, state, default state, name, manual-input
\* configuration and override flag (the debounce bookkeeping is the
\* scanner's own).
ChannelFields(reg) ==
  [i \in 1..Len(reg) |->
     [gpio |-> reg[i].gpio, state |-> reg[i].state,
      defaultState |-> reg[i].defaultState, name |-> reg[i].name,
      manualEnabled |-> reg[i].manualEnabled,
      manualGpio |-> reg[i].manualGpio,
      manualActiveLow |-> reg[i].manualActiveLow,
      manualMomentary |-> reg[i].manualMomentary,
      manualOverride |-> reg[i].manualOverride]]

\* A step that handles a switch_command or bulk_switch_command frame.
CommandFrameStep ==
  /\ pc = "ws"
  /\ used'.msgs = used.msgs + 1
  /\ hist'.lastType \in {"switch_command", "bulk_switch_command"}

\* C27: handling a switch_command or bulk_switch_command frame and the pass
\* over the manual inputs change no field of any channel and write no relay
\* pin.
C27_OnlyDrainMutatesChannels ==
  [][(CommandFrameStep \/ pc = "manual") =>
       /\ ChannelFields(switchesLocal') = ChannelFields(switchesLocal)
       /\ relay' = relay
       /\ hist'.writes = hist.writes]_vars

(***************************************************************************)
(* The debounce engine (checked under SpecManual)                          *)
(***************************************************************************)
\* C29: in every pass over a sampled input, a raw level that differs from
\* the last sampled one restarts the window (lastManualChangeMs = now) and
\* any other sample leaves it alone; stableManualLevel becomes rawLevel
\* exactly when rawLevel differs from it and now - lastManualChangeMs >=
\* MANUAL_DEBOUNCE_MS, and otherwise keeps its value; so a commit happens
\* only when the sample did not change the raw level and the level has been
\* the sampled one since at least MANUAL_DEBOUNCE_MS.
C29_CommitAfterQuietWindow ==
  \A k \in DOMAIN scanLog :
    LET e == scanLog[k]
        restarted == e.raw # e.lastLevelBefore
        due == /\ e.raw # e.stableBefore
               /\ e.at - e.changeMsAfter >= MANUAL_DEBOUNCE_MS
    IN e.sampled =>
         /\ e.lastLevelAfter = e.raw
         /\ e.changeMsAfter = (IF restarted THEN e.at ELSE e.changeMsBefore)
         /\ e.commit = due
         /\ e.stableAfter = (IF due THEN e.raw ELSE e.stableBefore)
         /\ e.stableAfter # e.stableBefore =>
              /\ ~restarted
              /\ e.lastLevelBefore = e.raw
              /\ e.at - e.changeMsBefore >= MANUAL_DEBOUNCE_MS

\* In one pass, one input commits the level it has held for the whole window
\* while another, which changed again inside its window, has the window
\* restarted and commits nothing.
C29_Witness ==
  /\ \E k \in DOMAIN scanLog :
       /\ scanLog[k].sampled /\ scanLog[k].commit
       /\ scanLog[k].stableAfter = scanLog[k].raw
       /\ scanLog[k].stableBefore # scanLog[k].raw
       /\ scanLog[k].changeMsBefore > 0
  /\ \E k \in DOMAIN scanLog :
       /\ scanLog[k].sampled /\ scanLog[k].flipped /\ ~scanLog[k].commit
       /\ scanLog[k].changeMsBefore > 0
       /\ scanLog[k].at - scanLog[k].changeMsBefore < MANUAL_DEBOUNCE_MS
       /\ scanLog[k].changeMsAfter = scanLog[k].at

(***************************************************************************)
(* Maintained inputs against the channel state (checked under Spec)        *)
(***************************************************************************)
\* C30: in every pass, a maintained input whose debounced level is the
\* sampled one and whose active value differs from the channel's state
\* issues one command, asking for the active value, also when the
\* difference was made by a remote command while the input stayed stable.
C30_MaintainedFiresOnDifference ==
  \A k \in DOMAIN scanLog :
    LET e == scanLog[k] IN
    ( /\ e.sampled /\ ~e.momentary
      /\ e.stableAfter = e.raw
      /\ e.active # e.stateBefore )
    => /\ e.calls = 1
       /\ IssuedBy(e).gpio = e.gpio
       /\ IssuedBy(e).state = e.active

(***************************************************************************)
(* The registry against the snapshot and the payloads                      *)
(***************************************************************************)
\* C39: the registry never holds more than MAX_SWITCHES channels (checked
\* under SpecPersist, whose payloads include one with nine valid entries).
C39_RegistryWithinMax == Len(switchesLocal) <= MAX_SWITCHES

\* Ids, states, manual configuration and override flags of a list of
\* channels.
Persisted(chs) ==
  [i \in 1..Len(chs) |->
     [gpio |-> chs[i].gpio, state |-> chs[i].state,
      manualEnabled |-> chs[i].manualEnabled,
      manualGpio |-> chs[i].manualGpio,
      manualActiveLow |-> chs[i].manualActiveLow,
      manualMomentary |-> chs[i].manualMomentary,
      manualOverride |-> chs[i].manualOverride]]

\* The channels of the durable snapshot.
Durable ==
  IF SnapshotCount(nvs) > 0 THEN SnapshotChannels(nvs, SnapshotCount(nvs))
  ELSE << >>

\* C38: once setup() has run, a registry that differs from the durable
\* snapshot in ids, states, manual configuration or override flags has the
\* dirty flag set (checked under SpecSave).
C38_DirtyWhenRegistryDiffers ==
  (pc # "setup" /\ Persisted(switchesLocal) # Persisted(Durable)) => cfgDirty

\* C37: a command enqueued before a configuration replace and dequeued after
\* it does not change the state of a channel of the new configuration
\* (checked under Spec).
C37_ReplaceIsEpochBoundary ==
  \A k \in DOMAIN applied :
    (applied[k].epochEnq < applied[k].epoch /\ applied[k].ok) =>
      applied[k].stateAfter = applied[k].stateBefore

(***************************************************************************)
(* Manual inputs and the channel state after the queue has drained          *)
(***************************************************************************)
\* The input of channel sw is at rest: the pin, the last sampled level and
\* the debounced level are the same.
InputAtRest(sw) ==
  /\ pin[sw.manualGpio] = sw.lastManualLevel
  /\ sw.lastManualLevel = sw.stableManualLevel

NoOverflow == \A j \in DOMAIN enqLog : enqLog[j].ok

\* C34: with no remote commands (SpecManual has no session) and no command
\* dropped, whenever the queue is empty and a maintained input is at rest,
\* the channel's state is the active value of the debounced level.
C34_MaintainedConverges ==
  (pc # "setup" /\ cmdQueue = << >> /\ NoOverflow) =>
    \A i \in DOMAIN switchesLocal :
      LET sw == switchesLocal[i] IN
      ( /\ sw.manualEnabled /\ sw.manualGpio >= 0 /\ ~sw.manualMomentary
        /\ InputAtRest(sw) )
      => sw.state = ManualActive(sw.manualActiveLow, sw.stableManualLevel)

(***************************************************************************)
(* SpecToggle: one momentary input, several presses between drain ticks    *)
(***************************************************************************)
\* control-loop iterations of SpecToggle
ToggleLoops == 7
\* changes of input level of SpecToggle
ToggleFlips == 3
ToggleDelays == {10, 30, 70}
CfgB == << ChannelB >>

InitToggle == InitWith({StoreOf(CfgB)}, {FALSE})

NextToggle ==
  \/ LoopSteps
  \/ Delay(ToggleDelays, ToggleLoops)
  \/ PinFlip({27}, ToggleFlips)

SpecToggle == InitToggle /\ [][NextToggle]_vars

\* The commands the manual pass has issued for channel g: one for each
\* debounced inactive-to-active edge of a momentary input.
Edges(g) ==
  Cardinality({j \in DOMAIN enqLog :
                 enqLog[j].src = "manual" /\ enqLog[j].gpio = g})

\* C35: with no remote commands (SpecToggle has no session) and no command
\* dropped, whenever the queue is empty the state of a momentary channel is
\* the state it was loaded with, inverted once for every debounced
\* inactive-to-active edge.
C35_MomentaryTogglesPerEdge ==
  (pc # "setup" /\ cmdQueue = << >> /\ NoOverflow) =>
    \A i \in DOMAIN switchesLocal :
      LET sw == switchesLocal[i] IN
      (sw.manualEnabled /\ sw.manualGpio >= 0 /\ sw.manualMomentary) =>
        sw.state = (IF Edges(sw.gpio) % 2 = 0 THEN hist.loaded[i]
                    ELSE ~hist.loaded[i])

(***************************************************************************)
(* SpecOverride: manual inputs of a device in session, full queue,         *)
(* configuration payloads                                                  *)
(***************************************************************************)
\* control-loop iterations of SpecOverride
OverrideLoops == 4
\* text frames of SpecOverride
OverrideMsgs == 2
\* changes of input level of SpecOverride
OverrideFlips == 2
OverrideDocs ==
  { BulkDoc(20), ConfigDoc("identified", CfgAB), ConfigDoc("config_update", CfgA) }
OverrideDelays == {50, 100}

InitOverride == InitWith({StoreOf(CfgAB)}, {TRUE})

NextOverride ==
  \/ LoopSteps
  \/ WsConnected(MaxLinkEvents)
  \/ WsText(OverrideDocs, OverrideMsgs)
  \/ Delay(OverrideDelays, OverrideLoops)
  \/ PinFlip({25, 27}, OverrideFlips)

SpecOverride == InitOverride /\ [][NextOverride]_vars

\* C36: a manual transition whose command was dropped because the queue was
\* full leaves the channel's override flag as it was.
C36_DroppedCommandLeavesOverride ==
  \A k \in DOMAIN scanLog :
    LET e == scanLog[k] IN
    (e.sampled /\ e.calls = 1 /\ ~IssuedBy(e).ok) =>
      e.overrideAfter = e.overrideBefore

\* C31: a manual pass that issues a command for a channel, momentary or
\* maintained, leaves the channel's override flag set; and every
\* state_update sent after the command was issued, while the configuration
\* loaded at that time is still the one in force, carries manual_override =
\* true for that channel.
C31_ManualSetsOverrideAndReports ==
  /\ \A k \in DOMAIN scanLog :
       (scanLog[k].sampled /\ scanLog[k].calls >= 1) => scanLog[k].overrideAfter
  /\ \A j \in DOMAIN enqLog, k \in DOMAIN txLog :
       ( /\ enqLog[j].src = "manual"
         /\ k > enqLog[j].sent
         /\ txLog[k].type = "state_update"
         /\ hist.tx[k].epoch = enqLog[j].epoch
         /\ hist.tx[k].boot = enqLog[j].boot )
       => \A i \in DOMAIN txLog[k].switches :
            txLog[k].switches[i].gpio = enqLog[j].gpio =>
              txLog[k].switches[i].manual_override

\* A state_update sent after the maintained input of channel 4 and the
\* momentary input of channel 16 have each issued a command, under the
\* configuration they were issued in, reporting both channels.
C31_Witness ==
  \E k \in DOMAIN txLog :
    /\ txLog[k].type = "state_update"
    /\ \A g \in {4, 16} :
         /\ \E j \in DOMAIN enqLog :
              /\ enqLog[j].src = "manual" /\ enqLog[j].gpio = g
              /\ enqLog[j].sent < k
              /\ enqLog[j].epoch = hist.tx[k].epoch
         /\ \E i \in DOMAIN txLog[k].switches :
              /\ txLog[k].switches[i].gpio = g
              /\ txLog[k].switches[i].manual_override

\* The entries of a payload array that carry a gpio >= 0, in order.
ValidEntries(arr) == SelectSeq(arr, LAMBDA o : JsonOr(o, "gpio", -1) >= 0)

\* A step that handles an identified or config_update frame with a switches
\* array.
ConfigStep ==
  /\ pc = "ws"
  /\ used'.msgs = used.msgs + 1
  /\ hist'.lastType \in {"identified", "config_update"}
  /\ hist'.epoch = hist.epoch + 1

\* The registry reg is exactly the valid entries of arr, each debounce
\* tracker started from the present level of its pin.
ReplacedBy(reg, arr) ==
  LET valid == ValidEntries(arr) IN
  /\ Len(reg) = Len(valid)
  /\ \A i \in DOMAIN reg :
       LET sw == reg[i]
           o == valid[i]
       IN /\ sw.gpio = o.gpio
          /\ sw.state = JsonOr(o, "state", FALSE)
          /\ sw.manualEnabled = JsonOr(o, "manual_en", FALSE)
          /\ sw.manualGpio = JsonOr(o, "manual_gpio", -1)
          /\ sw.manualActiveLow = JsonOr(o, "active_low", TRUE)
          /\ sw.manualMomentary = JsonOr(o, "momentary", FALSE)
          /\ sw.manualOverride = JsonOr(o, "override", FALSE)
          /\ (sw.manualEnabled /\ sw.manualGpio >= 0) =>
               /\ sw.lastManualLevel = pin[sw.manualGpio]
               /\ sw.stableManualLevel = pin[sw.manualGpio]
               /\ sw.lastManualActive =
                    ManualActive(sw.manualActiveLow, pin[sw.manualGpio])

\* C32: handling an identified or config_update frame with a switches array
\* leaves the registry equal to the valid entries of the payload, with the
\* debounce tracker of every manual input started from the present raw
\* level, and lastSeqs cleared; and the manual pass of that same iteration
\* commits no level and issues no command.
C32_ReplaceReinitialises ==
  /\ [][ConfigStep =>
          /\ ReplacedBy(switchesLocal', hist'.payload[1].arr)
          /\ lastSeqs' = << >>
          /\ hist'.clears = hist.clears + 1]_vars
  /\ []( ( /\ pc = "hb"
           /\ hist.payload # << >>
           /\ hist.payload[1].loops = used.loops
           /\ hist.payload[1].boot = used.boots )
         => \A k \in DOMAIN scanLog :
              scanLog[k].sampled =>
                /\ ~scanLog[k].flipped /\ ~scanLog[k].commit
                /\ scanLog[k].calls = 0 )

\* The manual pass that follows a configuration payload in the same
\* iteration has sampled an input that was moved to its active level before
\* the payload arrived and is still held there.
C32_Witness ==
  /\ pc = "hb"
  /\ hist.payload # << >>
  /\ hist.payload[1].loops = used.loops
  /\ used.flips > 0
  /\ \E k \in DOMAIN scanLog :
       /\ scanLog[k].sampled /\ scanLog[k].active /\ scanLog[k].wasActive
       /\ scanLog[k].raw = LOW /\ scanLog[k].stableBefore = LOW
       /\ ~scanLog[k].commit /\ scanLog[k].calls = 0

(***************************************************************************)
(* SpecLive: the control loop keeps running while commands are queued      *)
(***************************************************************************)
\* control-loop iterations of SpecLive in which frames may arrive
LiveLoops == 3
\* iterations the loop is followed after that while the queue is not empty
LiveSlack == 9
\* text frames of SpecLive
LiveMsgs == 2
\* commands of the largest frame of SpecLive
LiveBulk == 17
LiveDocs == { BulkDoc(LiveBulk), SwitchCommandDoc(23, TRUE, -1) }
LiveDelays == {50}

InitLive == InitWith({StoreOf(CfgAB)}, {TRUE})

LoopLive == LoopSteps \/ DelayBusy(LiveDelays, LiveLoops, LiveSlack)

\* Frames arrive during the first LiveLoops iterations.
WsTextLive == used.loops < LiveLoops /\ WsText(LiveDocs, LiveMsgs)

NextLive ==
  \/ LoopLive
  \/ WsConnected(MaxLinkEvents)
  \/ WsTextLive

\* Where a step of the loop is possible: everywhere but at the delay of an
\* iteration that is not followed any further.
LoopLiveEnabled ==
  \/ pc # "delay"
  \/ used.loops < LiveLoops
  \/ cmdQueue # << >> /\ used.loops < LiveLoops + LiveSlack

\* loop() is called again and again: weak fairness of the steps of the loop,
\* written out with the enabling condition above.
LoopLiveFair == []<>(~LoopLiveEnabled) \/ []<><<LoopLive>>_vars

SpecLive == InitLive /\ [][NextLive]_vars /\ LoopLiveFair

AcceptedId(j) == j \in DOMAIN enqLog /\ enqLog[j].ok
DequeuedId(j) == \E k \in DOMAIN applied : applied[k].id = j

\* C33: every command accepted into the queue is eventually taken out of it
\* by the drain step (and applied or rejected: the history entry records
\* which), and the queue is eventually empty for good once no further
\* command arrives.
C33_AcceptedEventuallyDequeued ==
  /\ \A j \in 1..(LiveMsgs * LiveBulk) : AcceptedId(j) ~> DequeuedId(j)
  /\ <>[](cmdQueue = << >>)

\* The queue is empty again after a command that was accepted behind twelve
\* others was applied, a command for an unknown gpio was rejected and one
\* command of the frame was dropped.
C33_Witness ==
  /\ cmdQueue = << >>
  /\ \E k \in DOMAIN applied :
       applied[k].ok /\ enqLog[applied[k].id].qlen >= 12
  /\ \E k \in DOMAIN applied : ~applied[k].ok /\ ~applied[k].known
  /\ \E j \in DOMAIN enqLog : ~enqLog[j].ok

====
